---- MODULE Spec2Model ----
(***************************************************************************)
(* The file-backed private validator of privval/file.go: the last-sign     *)
(* watermark (height, round, step, sign bytes, signature), its checker     *)
(* CheckHRS, the signing protocol of signVote / signProposal with the      *)
(* replay resolver and the vote extensions, and the persistence of the     *)
(* watermark to the state file, with process crashes and reloads.          *)
(***************************************************************************)
EXTENDS Integers, Sequences, FiniteSets, TLC

\* ------------------------------------------------------------------ bounds
\* Requests carry heights 1..MaxHeight, two rounds and two timestamps.
MaxHeight == 2

Heights == 1..MaxHeight
Rounds == 0..1
Timestamps == 1..2
\* Block ids of a request: the nil block id, or the id of a block.
BlockIDs == {"nil", "A"}
\* Extension payloads of a vote: empty, or some bytes.
Extensions == {"", "x"}
ChainID == "chain"
\* The validator's private keys (one per generated validator).
PrivKeys == {"k1"}

\* ------------------------------------------------------ program constants
stepNone == 0
stepPropose == 1
stepPrevote == 2
stepPrecommit == 3

\* types.SignedMsgType
PrevoteType == 1
PrecommitType == 2
ProposalType == 32

\* A nil byte slice, and a byte slice holding b.
Nil == << >>
Some(b) == << b >>

\* Errors returned to the caller (no error: "").
NoErr == ""
ErrHeightRegression == "height regression"
ErrRoundRegression == "round regression"
ErrStepRegression == "step regression"
ErrNoSignBytes == "no SignBytes found"
ErrConflictingData == "conflicting data"
ErrUnexpectedExtension == "unexpected vote extension"

\* ------------------------------------------------------------ collaborators
\* crypto.PrivKey: PubKey(), Address(), Sign (deterministic, as ed25519), and
\* PubKey.VerifySignature.
PubKeyOf(priv) == [pub |-> priv]
AddressOf(pub) == [addr |-> pub.pub]
Sign(priv, bytes) == Some([key |-> priv, msg |-> bytes])
VerifySignature(pub, bytes, sig) == sig = Some([key |-> pub.pub, msg |-> bytes])

\* types.VoteSignBytes: the canonical vote (type, height, round, block id,
\* timestamp, chain id); the extensions and every signature are left out.
VoteSignBytes(chainID, vote) ==
    [kind |-> "CanonicalVote", Type |-> vote.Type, Height |-> vote.Height,
     Round |-> vote.Round, BlockID |-> vote.BlockID,
     Timestamp |-> vote.Timestamp, ChainID |-> chainID]

\* types.ProposalSignBytes: the canonical proposal.
ProposalSignBytes(chainID, proposal) ==
    [kind |-> "CanonicalProposal", Type |-> proposal.Type,
     Height |-> proposal.Height, Round |-> proposal.Round,
     POLRound |-> proposal.POLRound, BlockID |-> proposal.BlockID,
     Timestamp |-> proposal.Timestamp, ChainID |-> chainID]

\* types.VoteExtensionSignBytes: the replay-protected extension sign bytes
\* (extension, height, round, chain id) and the non-replay-protected ones
\* (the raw payload).
VoteExtensionSignBytes(chainID, vote) ==
    [ext |-> [kind |-> "CanonicalVoteExtension", Extension |-> vote.Extension,
              Height |-> vote.Height, Round |-> vote.Round, ChainID |-> chainID],
     nonRp |-> [kind |-> "raw", data |-> vote.NonRpExtension]]

ProtoBlockIDIsNil(blockID) == blockID = "nil"

\* ------------------------------------------------------------------- steps
\* voteToStep: a vote is either stepPrevote or stepPrecommit; -1 stands for
\* the panic on any other type.
VoteToStepPanics(vote) == vote.Type \notin {PrevoteType, PrecommitType}
voteToStepNone(vote) ==
    CASE vote.Type = PrevoteType -> stepNone
      [] vote.Type = PrecommitType -> stepPrecommit
      [] OTHER -> -1

voteToStep(vote) ==
    CASE vote.Type = PrevoteType -> stepPrevote
      [] vote.Type = PrecommitType -> stepPrecommit
      [] OTHER -> -1

\* ----------------------------------------------------------- LastSignState
\* FilePVLastSignState after NewFilePV / reset().
EmptyLSS == [Height |-> 0, Round |-> 0, Step |-> stepNone,
             Signature |-> Nil, SignBytes |-> Nil]

\* Lexicographic order on (height, round, step) triples.
HRSOf(s) == <<s.Height, s.Round, s.Step>>
HRSLess(a, b) ==
    \/ a[1] < b[1]
    \/ a[1] = b[1] /\ a[2] < b[2]
    \/ a[1] = b[1] /\ a[2] = b[2] /\ a[3] < b[3]

\* CheckHRS: [sameHRS, err, panic].
\* CheckHRS returning NoSignBytes where it panics.
CheckHRSNoPanic(lss, height, round, step) ==
    IF lss.Height > height
    THEN [sameHRS |-> FALSE, err |-> ErrHeightRegression, panic |-> FALSE]
    ELSE IF lss.Height # height
    THEN [sameHRS |-> FALSE, err |-> NoErr, panic |-> FALSE]
    ELSE IF lss.Round > round
    THEN [sameHRS |-> FALSE, err |-> ErrRoundRegression, panic |-> FALSE]
    ELSE IF lss.Round # round
    THEN [sameHRS |-> FALSE, err |-> NoErr, panic |-> FALSE]
    ELSE IF lss.Step > step
    THEN [sameHRS |-> FALSE, err |-> ErrStepRegression, panic |-> FALSE]
    ELSE IF lss.Step < step
    THEN [sameHRS |-> FALSE, err |-> NoErr, panic |-> FALSE]
    ELSE IF lss.SignBytes = Nil \/ lss.Signature = Nil
    THEN [sameHRS |-> FALSE, err |-> ErrNoSignBytes, panic |-> FALSE]
    ELSE [sameHRS |-> TRUE, err |-> NoErr, panic |-> FALSE]

\* CheckHRS without the step regression check.
CheckHRSNoStepRegression(lss, height, round, step) ==
    IF lss.Height > height
    THEN [sameHRS |-> FALSE, err |-> ErrHeightRegression, panic |-> FALSE]
    ELSE IF lss.Height # height
    THEN [sameHRS |-> FALSE, err |-> NoErr, panic |-> FALSE]
    ELSE IF lss.Round > round
    THEN [sameHRS |-> FALSE, err |-> ErrRoundRegression, panic |-> FALSE]
    ELSE IF lss.Round # round
    THEN [sameHRS |-> FALSE, err |-> NoErr, panic |-> FALSE]
    ELSE IF lss.Step # step
    THEN [sameHRS |-> FALSE, err |-> NoErr, panic |-> FALSE]
    ELSE IF lss.SignBytes = Nil
    THEN [sameHRS |-> FALSE, err |-> ErrNoSignBytes, panic |-> FALSE]
    ELSE IF lss.Signature = Nil
    THEN [sameHRS |-> FALSE, err |-> NoErr, panic |-> TRUE]
    ELSE [sameHRS |-> TRUE, err |-> NoErr, panic |-> FALSE]

\* CheckHRS without the check for missing sign bytes.
CheckHRSNoSignBytesCheck(lss, height, round, step) ==
    IF lss.Height > height
    THEN [sameHRS |-> FALSE, err |-> ErrHeightRegression, panic |-> FALSE]
    ELSE IF lss.Height # height
    THEN [sameHRS |-> FALSE, err |-> NoErr, panic |-> FALSE]
    ELSE IF lss.Round > round
    THEN [sameHRS |-> FALSE, err |-> ErrRoundRegression, panic |-> FALSE]
    ELSE IF lss.Round # round
    THEN [sameHRS |-> FALSE, err |-> NoErr, panic |-> FALSE]
    ELSE IF lss.Step > step
    THEN [sameHRS |-> FALSE, err |-> ErrStepRegression, panic |-> FALSE]
    ELSE IF lss.Step < step
    THEN [sameHRS |-> FALSE, err |-> NoErr, panic |-> FALSE]
    ELSE IF lss.Signature = Nil
    THEN [sameHRS |-> FALSE, err |-> NoErr, panic |-> TRUE]
    ELSE [sameHRS |-> TRUE, err |-> NoErr, panic |-> FALSE]

\* CheckHRS taking an equal HRS for a new one.
CheckHRSEqualIsNew(lss, height, round, step) ==
    IF lss.Height > height
    THEN [sameHRS |-> FALSE, err |-> ErrHeightRegression, panic |-> FALSE]
    ELSE IF lss.Height # height
    THEN [sameHRS |-> FALSE, err |-> NoErr, panic |-> FALSE]
    ELSE IF lss.Round > round
    THEN [sameHRS |-> FALSE, err |-> ErrRoundRegression, panic |-> FALSE]
    ELSE IF lss.Round # round
    THEN [sameHRS |-> FALSE, err |-> NoErr, panic |-> FALSE]
    ELSE IF lss.Step > step
    THEN [sameHRS |-> FALSE, err |-> ErrStepRegression, panic |-> FALSE]
    ELSE [sameHRS |-> FALSE, err |-> NoErr, panic |-> FALSE]

CheckHRS(lss, height, round, step) ==
    IF lss.Height > height
    THEN [sameHRS |-> FALSE, err |-> ErrHeightRegression, panic |-> FALSE]
    ELSE IF lss.Height # height
    THEN [sameHRS |-> FALSE, err |-> NoErr, panic |-> FALSE]
    ELSE IF lss.Round > round
    THEN [sameHRS |-> FALSE, err |-> ErrRoundRegression, panic |-> FALSE]
    ELSE IF lss.Round # round
    THEN [sameHRS |-> FALSE, err |-> NoErr, panic |-> FALSE]
    ELSE IF lss.Step > step
    THEN [sameHRS |-> FALSE, err |-> ErrStepRegression, panic |-> FALSE]
    ELSE IF lss.Step < step
    THEN [sameHRS |-> FALSE, err |-> NoErr, panic |-> FALSE]
    ELSE IF lss.SignBytes = Nil
    THEN [sameHRS |-> FALSE, err |-> ErrNoSignBytes, panic |-> FALSE]
    ELSE IF lss.Signature = Nil
    THEN [sameHRS |-> FALSE, err |-> NoErr, panic |-> TRUE]
    ELSE [sameHRS |-> TRUE, err |-> NoErr, panic |-> FALSE]

\* checkVotesOnlyDifferByTimestamp / checkProposalsOnlyDifferByTimestamp:
\* both byte strings are unmarshalled, their timestamps set to the same value
\* (now) and the results compared; the timestamp of the last sign bytes is
\* returned with the verdict.
Now == 0
\* checkVotesOnlyDifferByTimestamp handing back the new timestamp.
checkVotesNewTimestamp(lastSignBytes, newSignBytes) ==
    [timestamp |-> newSignBytes.Timestamp,
     ok |-> [newSignBytes EXCEPT !.Timestamp = Now]
              = [lastSignBytes EXCEPT !.Timestamp = Now]]

\* checkVotesOnlyDifferByTimestamp without the comparison.
checkVotesAlwaysOk(lastSignBytes, newSignBytes) ==
    [timestamp |-> lastSignBytes.Timestamp, ok |-> TRUE]

checkVotesOnlyDifferByTimestamp(lastSignBytes, newSignBytes) ==
    [timestamp |-> lastSignBytes.Timestamp,
     ok |-> [newSignBytes EXCEPT !.Timestamp = Now]
              = [lastSignBytes EXCEPT !.Timestamp = Now]]

\* checkProposalsOnlyDifferByTimestamp without the comparison.
checkProposalsAlwaysOk(lastSignBytes, newSignBytes) ==
    [timestamp |-> lastSignBytes.Timestamp, ok |-> TRUE]

checkProposalsOnlyDifferByTimestamp(lastSignBytes, newSignBytes) ==
    [timestamp |-> lastSignBytes.Timestamp,
     ok |-> [newSignBytes EXCEPT !.Timestamp = Now]
              = [lastSignBytes EXCEPT !.Timestamp = Now]]

\* ------------------------------------------------------------- the files
\* cmtjson.MarshalIndent / Unmarshal of the state file: "signature" and
\* "signbytes" are omitempty, and a missing key unmarshals to nil.
MarshalLSSNoSignBytes(lss) ==
    [height |-> lss.Height, round |-> lss.Round, step |-> lss.Step]
      @@ (IF lss.Signature = Nil THEN << >> ELSE [signature |-> lss.Signature])

MarshalLSS(lss) ==
    [height |-> lss.Height, round |-> lss.Round, step |-> lss.Step]
      @@ (IF lss.Signature = Nil THEN << >> ELSE [signature |-> lss.Signature])
      @@ (IF lss.SignBytes = Nil THEN << >> ELSE [signbytes |-> lss.SignBytes])

UnmarshalLSS(json) ==
    [Height |-> json.height, Round |-> json.round, Step |-> json.step,
     Signature |-> IF "signature" \in DOMAIN json THEN json.signature ELSE Nil,
     SignBytes |-> IF "signbytes" \in DOMAIN json THEN json.signbytes ELSE Nil]

\* The key file: address, pub_key, priv_key.
MarshalKey(key) ==
    [address |-> key.Address, pub_key |-> key.PubKey, priv_key |-> key.PrivKey]

\* ------------------------------------------------------------------ FilePV
NewFilePV(privKey) ==
    [Key |-> [Address |-> AddressOf(PubKeyOf(privKey)),
              PubKey |-> PubKeyOf(privKey), PrivKey |-> privKey],
     LastSignState |-> EmptyLSS]

\* The memory of a process that is not running.
NoPV == [Key |-> [Address |-> AddressOf(PubKeyOf("")),
                  PubKey |-> PubKeyOf(""), PrivKey |-> ""],
         LastSignState |-> EmptyLSS]

\* loadFilePV keeping the public key and the address of the key file.
loadFilePVKeepsFileKey(keyJSON, stateJSON, loadState) ==
    [Key |-> [Address |-> keyJSON.address,
              PubKey |-> keyJSON.pub_key,
              PrivKey |-> keyJSON.priv_key],
     LastSignState |-> IF loadState THEN UnmarshalLSS(stateJSON) ELSE EmptyLSS]

\* loadFilePV never reading the state file.
loadFilePVEmpty(keyJSON, stateJSON, loadState) ==
    [Key |-> [Address |-> AddressOf(PubKeyOf(keyJSON.priv_key)),
              PubKey |-> PubKeyOf(keyJSON.priv_key),
              PrivKey |-> keyJSON.priv_key],
     LastSignState |-> EmptyLSS]

\* loadFilePV once both files were read: the public key and the address are
\* recomputed from the private key; the state is the state file's when
\* loadState, the zero value otherwise.
loadFilePV(keyJSON, stateJSON, loadState) ==
    [Key |-> [Address |-> AddressOf(PubKeyOf(keyJSON.priv_key)),
              PubKey |-> PubKeyOf(keyJSON.priv_key),
              PrivKey |-> keyJSON.priv_key],
     LastSignState |-> IF loadState THEN UnmarshalLSS(stateJSON) ELSE EmptyLSS]

\* The signExtension block of signVote entered whatever signExtension is.
voteExtensionsAlways(p, chainID, vote, signExtension) ==
    LET nonNilPrecommit ==
            vote.Type = PrecommitType /\ ~ProtoBlockIDIsNil(vote.BlockID)
        esb == VoteExtensionSignBytes(chainID, vote)
        extSig == IF nonNilPrecommit THEN Sign(p.Key.PrivKey, esb.ext) ELSE Nil
        nonRpExtSig ==
            IF nonNilPrecommit THEN Sign(p.Key.PrivKey, esb.nonRp) ELSE Nil
    IN  IF ~nonNilPrecommit
           /\ (vote.Extension # "" \/ vote.NonRpExtension # "")
        THEN [err |-> ErrUnexpectedExtension, vote |-> vote]
        ELSE [err |-> NoErr,
              vote |-> [vote EXCEPT !.ExtensionSignature = extSig,
                                    !.NonRpExtensionSignature = nonRpExtSig]]

\* The signExtension block of signVote looking at the replay-protected
\* payload only.
voteExtensionsOnlyRp(p, chainID, vote, signExtension) ==
    LET nonNilPrecommit ==
            vote.Type = PrecommitType /\ ~ProtoBlockIDIsNil(vote.BlockID)
        esb == VoteExtensionSignBytes(chainID, vote)
        extSig == IF nonNilPrecommit THEN Sign(p.Key.PrivKey, esb.ext) ELSE Nil
        nonRpExtSig ==
            IF nonNilPrecommit THEN Sign(p.Key.PrivKey, esb.nonRp) ELSE Nil
    IN  IF ~signExtension THEN [err |-> NoErr, vote |-> vote]
        ELSE IF ~nonNilPrecommit /\ vote.Extension # ""
        THEN [err |-> ErrUnexpectedExtension, vote |-> vote]
        ELSE [err |-> NoErr,
              vote |-> [vote EXCEPT !.ExtensionSignature = extSig,
                                    !.NonRpExtensionSignature = nonRpExtSig]]

\* The signExtension block of signVote signing non-empty payloads only.
voteExtensionsSkipEmpty(p, chainID, vote, signExtension) ==
    LET nonNilPrecommit ==
            vote.Type = PrecommitType /\ ~ProtoBlockIDIsNil(vote.BlockID)
        esb == VoteExtensionSignBytes(chainID, vote)
        extSig == IF nonNilPrecommit /\ vote.Extension # ""
                  THEN Sign(p.Key.PrivKey, esb.ext) ELSE Nil
        nonRpExtSig ==
            IF nonNilPrecommit /\ vote.NonRpExtension # ""
            THEN Sign(p.Key.PrivKey, esb.nonRp) ELSE Nil
    IN  IF ~signExtension THEN [err |-> NoErr, vote |-> vote]
        ELSE IF ~nonNilPrecommit
                /\ (vote.Extension # "" \/ vote.NonRpExtension # "")
        THEN [err |-> ErrUnexpectedExtension, vote |-> vote]
        ELSE [err |-> NoErr,
              vote |-> [vote EXCEPT !.ExtensionSignature = extSig,
                                    !.NonRpExtensionSignature = nonRpExtSig]]

\* The signExtension block of signVote: the extension signatures of a
\* non-nil precommit are made and stamped; any other vote must carry no
\* extension data and gets empty extension signatures.
voteExtensions(p, chainID, vote, signExtension) ==
    LET nonNilPrecommit ==
            vote.Type = PrecommitType /\ ~ProtoBlockIDIsNil(vote.BlockID)
        esb == VoteExtensionSignBytes(chainID, vote)
        extSig == IF nonNilPrecommit THEN Sign(p.Key.PrivKey, esb.ext) ELSE Nil
        nonRpExtSig ==
            IF nonNilPrecommit THEN Sign(p.Key.PrivKey, esb.nonRp) ELSE Nil
    IN  IF ~signExtension THEN [err |-> NoErr, vote |-> vote]
        ELSE IF ~nonNilPrecommit
                /\ (vote.Extension # "" \/ vote.NonRpExtension # "")
        THEN [err |-> ErrUnexpectedExtension, vote |-> vote]
        ELSE [err |-> NoErr,
              vote |-> [vote EXCEPT !.ExtensionSignature = extSig,
                                    !.NonRpExtensionSignature = nonRpExtSig]]

\* The sameHRS block of signVote reusing the last signature without the last
\* timestamp.
voteReplayKeepsTimestamp(lss, signBytes, vote) ==
    IF Some(signBytes) = lss.SignBytes
    THEN [err |-> NoErr, msg |-> [vote EXCEPT !.Signature = lss.Signature]]
    ELSE LET d == checkVotesOnlyDifferByTimestamp(lss.SignBytes[1], signBytes)
         IN  IF d.ok
             THEN [err |-> NoErr,
                   msg |-> [vote EXCEPT !.Signature = lss.Signature]]
             ELSE [err |-> ErrConflictingData, msg |-> vote]

\* The sameHRS block of signVote returning on equal sign bytes without the
\* last signature.
voteReplayNoStamp(lss, signBytes, vote) ==
    IF Some(signBytes) = lss.SignBytes
    THEN [err |-> NoErr, msg |-> vote]
    ELSE LET d == checkVotesOnlyDifferByTimestamp(lss.SignBytes[1], signBytes)
         IN  IF d.ok
             THEN [err |-> NoErr,
                   msg |-> [vote EXCEPT !.Timestamp = d.timestamp,
                                        !.Signature = lss.Signature]]
             ELSE [err |-> ErrConflictingData, msg |-> vote]

\* The sameHRS block of signVote: the last signature is reused when the sign
\* bytes are the same, the last timestamp and signature when they differ by
\* the timestamp only; otherwise the data conflict.
voteReplay(lss, signBytes, vote) ==
    IF Some(signBytes) = lss.SignBytes
    THEN [err |-> NoErr, msg |-> [vote EXCEPT !.Signature = lss.Signature]]
    ELSE LET d == checkVotesOnlyDifferByTimestamp(lss.SignBytes[1], signBytes)
         IN  IF d.ok
             THEN [err |-> NoErr,
                   msg |-> [vote EXCEPT !.Timestamp = d.timestamp,
                                        !.Signature = lss.Signature]]
             ELSE [err |-> ErrConflictingData, msg |-> vote]

\* The sameHRS block of signProposal.
proposalReplay(lss, signBytes, proposal) ==
    IF Some(signBytes) = lss.SignBytes
    THEN [err |-> NoErr, msg |-> [proposal EXCEPT !.Signature = lss.Signature]]
    ELSE LET d == checkProposalsOnlyDifferByTimestamp(lss.SignBytes[1], signBytes)
         IN  IF d.ok
             THEN [err |-> NoErr,
                   msg |-> [proposal EXCEPT !.Timestamp = d.timestamp,
                                            !.Signature = lss.Signature]]
             ELSE [err |-> ErrConflictingData, msg |-> proposal]

\* The outcome of signVote / signProposal up to its return or its call of
\* saveSigned. path: "panic"; "error" (err is returned); "reuse" (nil is
\* returned, the stored signature stamped); "fresh" (saveSigned is called
\* with signBytes and sig). msg is the caller's message as left so far.
Outcome(path, err, m, height, round, step, signBytes, sig) ==
    [path |-> path, err |-> err, msg |-> m, height |-> height,
     round |-> round, step |-> step, signBytes |-> signBytes, sig |-> sig]

\* signVote replaying the vote as it came, without the extension signatures
\* of this call.
signVoteReplayAsCame(p, chainID, vote, signExtension) ==
    LET height == vote.Height
        round == vote.Round
        step == voteToStep(vote)
        lss == p.LastSignState
        chk == CheckHRS(lss, height, round, step)
        signBytes == VoteSignBytes(chainID, vote)
        ext == voteExtensions(p, chainID, vote, signExtension)
        rep == voteReplay(lss, signBytes, vote)
        res(path, err, m, sig) ==
            Outcome(path, err, m, height, round, step, signBytes, sig)
    IN  IF VoteToStepPanics(vote) \/ chk.panic THEN res("panic", NoErr, vote, Nil)
        ELSE IF chk.err # NoErr THEN res("error", chk.err, vote, Nil)
        ELSE IF ext.err # NoErr THEN res("error", ext.err, ext.vote, Nil)
        ELSE IF chk.sameHRS
        THEN res(IF rep.err = NoErr THEN "reuse" ELSE "error", rep.err, rep.msg, Nil)
        ELSE res("fresh", NoErr, ext.vote, Sign(p.Key.PrivKey, signBytes))

\* signVote resolving a same-HRS request before the extension rules.
signVoteReplayFirst(p, chainID, vote, signExtension) ==
    LET height == vote.Height
        round == vote.Round
        step == voteToStep(vote)
        lss == p.LastSignState
        chk == CheckHRS(lss, height, round, step)
        signBytes == VoteSignBytes(chainID, vote)
        ext == voteExtensions(p, chainID, vote, signExtension)
        rep == voteReplay(lss, signBytes, vote)
        res(path, err, m, sig) ==
            Outcome(path, err, m, height, round, step, signBytes, sig)
    IN  IF VoteToStepPanics(vote) \/ chk.panic THEN res("panic", NoErr, vote, Nil)
        ELSE IF chk.err # NoErr THEN res("error", chk.err, vote, Nil)
        ELSE IF chk.sameHRS
        THEN res(IF rep.err = NoErr THEN "reuse" ELSE "error", rep.err, rep.msg, Nil)
        ELSE IF ext.err # NoErr THEN res("error", ext.err, ext.vote, Nil)
        ELSE res("fresh", NoErr, ext.vote, Sign(p.Key.PrivKey, signBytes))

signVote(p, chainID, vote, signExtension) ==
    LET height == vote.Height
        round == vote.Round
        step == voteToStep(vote)
        lss == p.LastSignState
        chk == CheckHRS(lss, height, round, step)
        signBytes == VoteSignBytes(chainID, vote)
        ext == voteExtensions(p, chainID, vote, signExtension)
        rep == voteReplay(lss, signBytes, ext.vote)
        res(path, err, m, sig) ==
            Outcome(path, err, m, height, round, step, signBytes, sig)
    IN  IF VoteToStepPanics(vote) \/ chk.panic THEN res("panic", NoErr, vote, Nil)
        ELSE IF chk.err # NoErr THEN res("error", chk.err, vote, Nil)
        ELSE IF ext.err # NoErr THEN res("error", ext.err, ext.vote, Nil)
        ELSE IF chk.sameHRS
        THEN res(IF rep.err = NoErr THEN "reuse" ELSE "error", rep.err, rep.msg, Nil)
        ELSE res("fresh", NoErr, ext.vote, Sign(p.Key.PrivKey, signBytes))

\* signProposal taking the step of a precommit.
signProposalStepPrecommit(p, chainID, proposal) ==
    LET height == proposal.Height
        round == proposal.Round
        step == stepPrecommit
        lss == p.LastSignState
        chk == CheckHRS(lss, height, round, step)
        signBytes == ProposalSignBytes(chainID, proposal)
        rep == proposalReplay(lss, signBytes, proposal)
        res(path, err, m, sig) ==
            Outcome(path, err, m, height, round, step, signBytes, sig)
    IN  IF chk.panic THEN res("panic", NoErr, proposal, Nil)
        ELSE IF chk.err # NoErr THEN res("error", chk.err, proposal, Nil)
        ELSE IF chk.sameHRS
        THEN res(IF rep.err = NoErr THEN "reuse" ELSE "error", rep.err, rep.msg, Nil)
        ELSE res("fresh", NoErr, proposal, Sign(p.Key.PrivKey, signBytes))

signProposal(p, chainID, proposal) ==
    LET height == proposal.Height
        round == proposal.Round
        step == stepPropose
        lss == p.LastSignState
        chk == CheckHRS(lss, height, round, step)
        signBytes == ProposalSignBytes(chainID, proposal)
        rep == proposalReplay(lss, signBytes, proposal)
        res(path, err, m, sig) ==
            Outcome(path, err, m, height, round, step, signBytes, sig)
    IN  IF chk.panic THEN res("panic", NoErr, proposal, Nil)
        ELSE IF chk.err # NoErr THEN res("error", chk.err, proposal, Nil)
        ELSE IF chk.sameHRS
        THEN res(IF rep.err = NoErr THEN "reuse" ELSE "error", rep.err, rep.msg, Nil)
        ELSE res("fresh", NoErr, proposal, Sign(p.Key.PrivKey, signBytes))

\* saveSigned forgetting the sign bytes.
saveSignedStateNoSignBytes(height, round, step, signBytes, sig) ==
    [Height |-> height, Round |-> round, Step |-> step,
     Signature |-> sig, SignBytes |-> Nil]

\* saveSigned forgetting the signature.
saveSignedStateNoSignature(height, round, step, signBytes, sig) ==
    [Height |-> height, Round |-> round, Step |-> step,
     Signature |-> Nil, SignBytes |-> Some(signBytes)]

\* saveSigned leaving the round as it was constructed.
saveSignedStateNoRound(height, round, step, signBytes, sig) ==
    [Height |-> height, Round |-> 0, Step |-> step,
     Signature |-> sig, SignBytes |-> Some(signBytes)]

\* saveSigned's assignments to pv.LastSignState.
saveSignedState(height, round, step, signBytes, sig) ==
    [Height |-> height, Round |-> round, Step |-> step,
     Signature |-> sig, SignBytes |-> Some(signBytes)]

\* ---------------------------------------------------------------- requests
\* A vote comes without extension signatures, or with both from an earlier
\* signing.
OldSignature == Some([key |-> "old", msg |-> "old"])

Votes ==
    {v \in [Type : {PrevoteType, PrecommitType}, Height : Heights,
            Round : Rounds, BlockID : BlockIDs, Timestamp : Timestamps,
            Extension : Extensions, NonRpExtension : Extensions,
            Signature : {Nil}, ExtensionSignature : {Nil, OldSignature},
            NonRpExtensionSignature : {Nil, OldSignature}] :
        v.ExtensionSignature = v.NonRpExtensionSignature}

Proposals ==
    [Type : {ProposalType}, Height : Heights, Round : Rounds, POLRound : {-1},
     BlockID : BlockIDs, Timestamp : Timestamps, Signature : {Nil}]

\* Votes whose type is neither prevote nor precommit: the unknown type and
\* the proposal type.
OtherTypeVotes ==
    [Type : {0, ProposalType}, Height : Heights, Round : Rounds,
     BlockID : {"A"}, Timestamp : {1}, Extension : {""}, NonRpExtension : {""},
     Signature : {Nil}, ExtensionSignature : {Nil},
     NonRpExtensionSignature : {Nil}]

RawBytes == {[kind |-> "raw", data |-> "ping"], [kind |-> "raw", data |-> "pong"]}

\* ------------------------------------------------------------------- state
VARIABLES
    pv,         \* the FilePV in the memory of the running process
    keyFile,    \* contents of the key file: Nil (absent) or Some(json)
    stateFile,  \* contents of the state file: Nil (absent) or Some(json)
    pc,         \* "idle": no call in progress; "saveSigned", "stamp": inside
                \* the fresh path of signVote / signProposal; "returned": the
                \* call has returned and the caller looks at its result;
                \* "dead": the process has crashed, panicked or exited
    call,       \* the call in progress or just returned, with its arguments
    msg,        \* the caller's message (vote, proposal) as the call leaves it
    ret,        \* what the call returned: "ok", or the error
    local,      \* the fresh path's arguments of saveSigned, until the return
    hist,       \* observer: one earlier event, kept for comparison
    bitArrays,  \* the BitArrays in memory, by name: mtx, TrueBitCount, Bits,
                \* Elems
    goroutines, \* the goroutines working on the BitArrays: the operation
                \* each is in and its position in it
    hvs         \* the HeightVoteSet

vars == <<pv, keyFile, stateFile, pc, call, msg, ret, local, hist,
          bitArrays, goroutines, hvs>>

\* The validator's part of the state, and the part of the other packages.
pvVars == <<pv, keyFile, stateFile, pc, call, msg, ret, local, hist>>
libVars == <<bitArrays, goroutines, hvs>>

\* No BitArray, goroutine or HeightVoteSet exists.
NoLibs == bitArrays = << >> /\ goroutines = << >> /\ hvs = << >>

NoLocal == [height |-> 0, round |-> 0, step |-> 0, signBytes |-> Nil, sig |-> Nil]
NoMsg == [kind |-> "none"]
NoCall == [op |-> "none"]
SignOps == {"SignVote", "SignProposal"}

\* The canonical sign bytes of a vote or proposal.
MsgSignBytes(m) ==
    IF m.Type = ProposalType THEN ProposalSignBytes(ChainID, m)
    ELSE VoteSignBytes(ChainID, m)

\* The observer keeps at most one event of the kind it watches: "recorded",
\* a watermark with sign bytes written to the state file; "returned", a
\* message a sign call returned with success; "reloaded", the load that has
\* just happened with the fresh-path call the crash before it interrupted
\* after saveSigned, kept until the next call, and through it when it repeats
\* the interrupted one. broken: a Reset or a load with
\* an empty state has happened since the event.
Forget == IF hist.kind = "reloaded" THEN [hist EXCEPT !.v = Nil] ELSE hist

Observe(kind, event) ==
    \/ hist' = Forget
    \/ /\ hist.kind = kind
       /\ hist.v = Nil
       /\ hist' = [hist EXCEPT !.v = Some(event)]

BreakHist ==
    hist' = IF hist.kind = "reloaded" THEN Forget
            ELSE [hist EXCEPT !.broken = (hist.v # Nil)]

Returned(op, m) ==
    [op |-> op, signBytes |-> MsgSignBytes(m), sig |-> m.Signature]

\* The call repeats, with any timestamp and any extension payloads, the call
\* that the crash before the load interrupted.
IsRetry(c) ==
    /\ hist.kind = "reloaded"
    /\ hist.v # Nil
    /\ hist.v[1].interrupted.op = c.op
    /\ hist.v[1].interrupted.signExtension = c.signExtension
    /\ MsgSignBytes([hist.v[1].interrupted.arg EXCEPT !.Timestamp = 0])
          = MsgSignBytes([c.arg EXCEPT !.Timestamp = 0])

\* The call in progress or just returned took the fresh path.
FreshPath == call.op \in SignOps /\ local # NoLocal

TypeOK ==
    /\ pc \in {"idle", "saveSigned", "stamp", "returned", "dead",
               "write", "chmod", "fsync", "rename", "loop", "sleep"}
    /\ hist.kind \in {"off", "plain", "types", "recorded", "returned", "reloaded"}

InitWith(kind) ==
    /\ NoLibs
    /\ pv \in {NewFilePV(k) : k \in PrivKeys}
    /\ keyFile = Nil
    /\ stateFile = Nil
    /\ pc = "idle"
    /\ call = NoCall
    /\ msg = NoMsg
    /\ ret = ""
    /\ local = NoLocal
    /\ hist = [kind |-> kind, v |-> Nil, broken |-> FALSE]

Init == InitWith("off")

\* The specifications that compare a call with an earlier one draw votes
\* without extension data (the canonical sign bytes they compare leave the
\* extensions out) and proposals of one timestamp; only the plain
\* specification draws votes that come with extension signatures.
VoteRequests ==
    IF hist.kind = "off" THEN Votes
    ELSE IF hist.kind = "types"
    THEN {v \in Votes : /\ v.Extension = "" /\ v.NonRpExtension = ""
                        /\ v.ExtensionSignature = Nil /\ v.Timestamp = 1}
         \cup OtherTypeVotes
    ELSE IF hist.kind = "reloaded"
    THEN {v \in Votes : v.ExtensionSignature = Nil}
    ELSE {v \in Votes : /\ v.Extension = "" /\ v.NonRpExtension = ""
                        /\ v.ExtensionSignature = Nil}
SignExtensionRequests ==
    IF hist.kind \in {"off", "reloaded"} THEN BOOLEAN ELSE {FALSE}
ProposalRequests ==
    IF hist.kind \in {"off", "reloaded"} THEN Proposals
    ELSE {p \in Proposals : p.Timestamp = 1}

\* A sign call that zeroes the watermark in memory when it fails.
SignStepErrorResets(c, r) ==
    /\ hist' = Forget
    /\ UNCHANGED <<keyFile, stateFile, local>>
    /\ r.path = "error"
    /\ pc' = "returned"
    /\ call' = c
    /\ msg' = r.msg
    /\ ret' = r.err
    /\ pv' = [pv EXCEPT !.LastSignState = EmptyLSS]

\* The end of a sign call that did not take the fresh path, or its start
\* when it did. Of a call that failed, the specifications that compare a call
\* with an earlier one keep the error only.
SignStep(c, r) ==
    /\ hist' = IF r.path # "panic" /\ IsRetry(c) THEN hist ELSE Forget
    /\ UNCHANGED <<keyFile, stateFile>>
    /\ \/ /\ r.path = "panic"
          /\ pc' = "dead"
          /\ pv' = NoPV
          /\ call' = [op |-> "Crash",
                       at |-> IF c.op = "SignVote" /\ VoteToStepPanics(c.arg)
                              THEN "voteToStep" ELSE "CheckHRS"]
          /\ msg' = NoMsg
          /\ ret' = "panic"
          /\ local' = NoLocal
       \/ /\ r.path = "error"
          /\ pc' = "returned"
          /\ call' = IF hist.kind \in {"off", "types", "reloaded"} THEN c
                     ELSE [op |-> c.op]
          /\ msg' = IF hist.kind \in {"off", "types", "reloaded"} THEN r.msg
                    ELSE NoMsg
          /\ ret' = r.err
          /\ UNCHANGED <<pv, local>>
       \/ /\ r.path = "reuse"
          /\ pc' = "returned"
          /\ call' = c
          /\ msg' = r.msg
          /\ ret' = "ok"
          /\ UNCHANGED <<pv, local>>
       \/ /\ r.path = "fresh"
          /\ pc' = "saveSigned"
          /\ call' = c
          /\ msg' = r.msg
          /\ ret' = "pending"
          /\ local' = [height |-> r.height, round |-> r.round, step |-> r.step,
                       signBytes |-> Some(r.signBytes), sig |-> r.sig]
          /\ UNCHANGED pv

SignVote ==
    \E vote \in VoteRequests, signExtension \in SignExtensionRequests :
        /\ pc = "idle"
        /\ UNCHANGED libVars
        /\ SignStep([op |-> "SignVote", arg |-> vote,
                     signExtension |-> signExtension],
                    signVote(pv, ChainID, vote, signExtension))

SignProposal ==
    \E proposal \in ProposalRequests :
        /\ pc = "idle"
        /\ UNCHANGED libVars
        /\ SignStep([op |-> "SignProposal", arg |-> proposal,
                     signExtension |-> FALSE],
                    signProposal(pv, ChainID, proposal))

\* saveSigned setting the fields and returning without Save().
SaveSignedNoWrite ==
    /\ pc = "saveSigned"
    /\ UNCHANGED libVars
    /\ pv' = [pv EXCEPT !.LastSignState =
                  saveSignedState(local.height, local.round, local.step,
                                  local.signBytes[1], local.sig)]
    /\ pc' = "stamp"
    /\ UNCHANGED <<keyFile, stateFile, call, msg, ret, local, hist>>

\* saveSigned returning nil when the write of the state file has failed.
SaveSignedIgnoresFailure ==
    /\ pc = "saveSigned"
    /\ UNCHANGED libVars
    /\ LET lss == saveSignedState(local.height, local.round, local.step,
                                  local.signBytes[1], local.sig)
       IN  /\ pv' = [pv EXCEPT !.LastSignState = lss]
           /\ stateFile' \in {stateFile, Some(MarshalLSS(lss))}
           /\ pc' = "stamp"
           /\ IF stateFile' = Some(MarshalLSS(lss))
              THEN Observe("recorded", lss) ELSE hist' = Forget
           /\ UNCHANGED <<keyFile, call, msg, ret, local>>

\* saveSigned: the five assignments, then LastSignState.Save(), which
\* replaces the state file atomically or panics when the write fails.
SaveSigned ==
    /\ pc = "saveSigned"
    /\ UNCHANGED libVars
    /\ LET lss == saveSignedState(local.height, local.round, local.step,
                                  local.signBytes[1], local.sig)
       IN  \/ /\ pv' = [pv EXCEPT !.LastSignState = lss]
              /\ stateFile' = Some(MarshalLSS(lss))
              /\ pc' = "stamp"
              /\ Observe("recorded", lss)
              /\ UNCHANGED <<keyFile, call, msg, ret, local>>
           \/ /\ pv' = NoPV
              /\ pc' = "dead"
              /\ ret' = "panic"
              /\ local' = NoLocal
              /\ call' = [op |-> "Crash", at |-> "saveSigned"]
              /\ msg' = NoMsg
              /\ hist' = Forget
              /\ UNCHANGED <<keyFile, stateFile>>

\* The last statements of the fresh path: vote.Signature = sig; return nil.
StampSignature ==
    /\ pc = "stamp"
    /\ UNCHANGED libVars
    /\ msg' = [msg EXCEPT !.Signature = local.sig]
    /\ ret' = "ok"
    /\ pc' = "returned"
    /\ UNCHANGED <<pv, keyFile, stateFile, call, local, hist>>

\* SignBytes recording what it signed in the watermark.
SignBytesTracked ==
    \E bytes \in RawBytes :
        /\ pc = "idle"
        /\ UNCHANGED libVars
        /\ call' = [op |-> "SignBytes", arg |-> bytes, signExtension |-> FALSE]
        /\ msg' = [kind |-> "raw", Signature |-> Sign(pv.Key.PrivKey, bytes)]
        /\ ret' = "ok"
        /\ pc' = "returned"
        /\ hist' = Forget
        /\ pv' = [pv EXCEPT !.LastSignState.SignBytes = Some(bytes),
                            !.LastSignState.Signature =
                                Sign(pv.Key.PrivKey, bytes)]
        /\ UNCHANGED <<keyFile, stateFile, local>>

\* SignBytes: the key's signature over the bytes; no HRS is involved.
SignBytes ==
    \E bytes \in RawBytes :
        /\ pc = "idle"
        /\ UNCHANGED libVars
        /\ call' = [op |-> "SignBytes", arg |-> bytes, signExtension |-> FALSE]
        /\ msg' = [kind |-> "raw", Signature |-> Sign(pv.Key.PrivKey, bytes)]
        /\ ret' = "ok"
        /\ pc' = "returned"
        /\ hist' = Forget
        /\ UNCHANGED <<pv, keyFile, stateFile, local>>

\* FilePV.Save of the validator p: Key.Save(), then LastSignState.Save();
\* each write replaces its file or panics.
SaveFiles(op, p) ==
    \/ /\ keyFile' = Some(MarshalKey(p.Key))
       /\ stateFile' = Some(MarshalLSS(p.LastSignState))
       /\ pv' = p
       /\ pc' = "returned"
       /\ call' = [op |-> op]
       /\ ret' = "ok"
    \/ /\ keyFile' \in {keyFile, Some(MarshalKey(p.Key))}
       /\ stateFile' = stateFile
       /\ pv' = NoPV
       /\ pc' = "dead"
       /\ call' = [op |-> "Crash", at |-> "panic"]
       /\ ret' = "panic"

\* Save writing the key file only.
SaveKeyOnly ==
    /\ pc = "idle"
    /\ UNCHANGED libVars
    /\ msg' = NoMsg
    /\ keyFile' = Some(MarshalKey(pv.Key))
    /\ pc' = "returned"
    /\ call' = [op |-> "Save"]
    /\ ret' = "ok"
    /\ hist' = Forget
    /\ UNCHANGED <<pv, stateFile, local>>

Save ==
    /\ pc = "idle"
    /\ UNCHANGED libVars
    /\ msg' = NoMsg
    /\ SaveFiles("Save", pv)
    /\ IF pc' = "returned" /\ pv.LastSignState.SignBytes # Nil
       THEN Observe("recorded", pv.LastSignState)
       ELSE hist' = Forget
    /\ UNCHANGED local

\* Reset constructing the validator anew with another key.
ResetNewKey ==
    /\ pc = "idle"
    /\ UNCHANGED libVars
    /\ msg' = NoMsg
    /\ SaveFiles("Reset", NewFilePV("k0"))
    /\ BreakHist
    /\ UNCHANGED local

\* Reset leaving the signature in place.
ResetKeepsSignature ==
    /\ pc = "idle"
    /\ UNCHANGED libVars
    /\ msg' = NoMsg
    /\ SaveFiles("Reset",
                 [pv EXCEPT !.LastSignState =
                     [EmptyLSS EXCEPT !.Signature = pv.LastSignState.Signature]])
    /\ BreakHist
    /\ UNCHANGED local

\* Reset clearing the sign bytes and the signature only.
ResetKeepsHRS ==
    /\ pc = "idle"
    /\ UNCHANGED libVars
    /\ msg' = NoMsg
    /\ SaveFiles("Reset",
                 [pv EXCEPT !.LastSignState =
                     [pv.LastSignState EXCEPT !.Signature = Nil,
                                              !.SignBytes = Nil]])
    /\ BreakHist
    /\ UNCHANGED local

\* Reset: LastSignState.reset(), then Save().
Reset ==
    /\ pc = "idle"
    /\ UNCHANGED libVars
    /\ msg' = NoMsg
    /\ SaveFiles("Reset", [pv EXCEPT !.LastSignState = EmptyLSS])
    /\ BreakHist
    /\ UNCHANGED local

\* The caller takes the result of the call; what it was returned with success
\* by a sign call it may publish.
Return ==
    /\ pc = "returned"
    /\ UNCHANGED libVars
    /\ pc' = "idle"
    /\ call' = NoCall
    /\ msg' = NoMsg
    /\ ret' = ""
    /\ IF call.op \in SignOps /\ ret = "ok"
       THEN Observe("returned", Returned(call.op, msg))
       ELSE hist' = IF call.op = "LoadFilePV" THEN hist ELSE Forget
    /\ local' = NoLocal
    /\ UNCHANGED <<pv, keyFile, stateFile>>

\* The process is killed: between two calls, inside one, or before the
\* caller has used the result of one.
Crash ==
    /\ pc \in {"idle", "saveSigned", "stamp", "returned"}
    /\ UNCHANGED libVars
    /\ pc' = "dead"
    /\ pv' = NoPV
    /\ call' = [op |-> "Crash", at |-> pc]
    /\ msg' = NoMsg
    /\ ret' = "crash"
    /\ local' = NoLocal
    /\ hist' = IF hist.kind = "reloaded"
               THEN [hist EXCEPT !.v = IF pc \in {"stamp", "returned"} /\ FreshPath
                                       THEN Some(call) ELSE Nil]
               ELSE hist
    /\ UNCHANGED <<keyFile, stateFile>>

\* LoadFilePV starting from the empty state when the state file is missing.
LoadFilePVMissingIsEmpty ==
    \E loadState \in BOOLEAN :
        /\ pc = "dead"
        /\ UNCHANGED libVars
        /\ IF keyFile = Nil
           THEN /\ ret' = "exit"
                /\ UNCHANGED <<pv, pc, call, msg, hist>>
           ELSE /\ pv' = loadFilePV(keyFile[1],
                                    IF loadState /\ stateFile # Nil
                                    THEN stateFile[1] ELSE << >>,
                                    loadState /\ stateFile # Nil)
                /\ pc' = "returned"
                /\ call' = [op |-> "LoadFilePV", loadState |-> loadState]
                /\ msg' = NoMsg
                /\ ret' = "ok"
                /\ IF hist.kind = "reloaded"
                   THEN hist' = [hist EXCEPT !.v =
                                    Some([loadState |-> loadState,
                                          after |-> call.at,
                                          interrupted |-> IF hist.v = Nil
                                                          THEN NoCall
                                                          ELSE hist.v[1]])]
                   ELSE IF loadState THEN hist' = hist ELSE BreakHist
        /\ UNCHANGED <<keyFile, stateFile, local>>

\* A new process loads the validator: LoadFilePV (loadState) or
\* LoadFilePVEmptyState. It exits when a file it reads is missing.
LoadFilePV ==
    \E loadState \in BOOLEAN :
        /\ pc = "dead"
        /\ UNCHANGED libVars
        /\ IF keyFile = Nil \/ (loadState /\ stateFile = Nil)
           THEN /\ ret' = "exit"
                /\ UNCHANGED <<pv, pc, call, msg, hist>>
           ELSE /\ pv' = loadFilePV(keyFile[1],
                                    IF loadState THEN stateFile[1] ELSE << >>,
                                    loadState)
                /\ pc' = "returned"
                /\ call' = [op |-> "LoadFilePV", loadState |-> loadState]
                /\ msg' = NoMsg
                /\ ret' = "ok"
                /\ IF hist.kind = "reloaded"
                   THEN hist' = [hist EXCEPT !.v =
                                    Some([loadState |-> loadState,
                                          after |-> call.at,
                                          interrupted |-> IF hist.v = Nil
                                                          THEN NoCall
                                                          ELSE hist.v[1]])]
                   ELSE IF loadState THEN hist' = hist ELSE BreakHist
        /\ UNCHANGED <<keyFile, stateFile, local>>

Next ==
    \/ SignVote
    \/ SignProposal
    \/ SaveSigned
    \/ StampSignature
    \/ SignBytes
    \/ Save
    \/ Reset
    \/ Return
    \/ Crash
    \/ LoadFilePV

Spec == Init /\ [][Next]_vars

\* The same program with the observer watching the state file's writes, and
\* with the observer watching the messages returned.
InitRecorded == InitWith("recorded")
SpecRecorded == InitRecorded /\ [][Next]_vars
InitReturned == InitWith("returned")
SpecReturned == InitReturned /\ [][Next]_vars
\* ... and noting, until the next call, the load that has just happened.
InitReloaded == InitWith("reloaded")
SpecReloaded == InitReloaded /\ [][Next]_vars

\* No observer; the requests are proposals and votes of one timestamp
\* without extension data, and votes of other types.
InitVoteTypes == InitWith("types")
SpecVoteTypes == InitVoteTypes /\ [][Next]_vars

\* The same program started by LoadFilePV on a state file that holds any
\* (height, round, step) without sign bytes and signature.
FileWatermarks ==
    [Height : 0..MaxHeight, Round : Rounds, Step : stepNone..stepPrecommit,
     Signature : {Nil}, SignBytes : {Nil}]

InitStateFile ==
    /\ NoLibs
    /\ \E k \in PrivKeys, w \in FileWatermarks :
          /\ keyFile = Some(MarshalKey(NewFilePV(k).Key))
          /\ stateFile = Some(MarshalLSS(w))
          /\ pv = loadFilePV(keyFile[1], stateFile[1], TRUE)
    /\ pc = "idle"
    /\ call = NoCall
    /\ msg = NoMsg
    /\ ret = ""
    /\ local = NoLocal
    /\ hist = [kind |-> "off", v |-> Nil, broken |-> FALSE]

SpecStateFile == InitStateFile /\ [][Next]_vars

\* The same program started by LoadFilePV on a state file that holds the
\* sign bytes of a vote or proposal of the last height and no signature.
CorruptWatermarks ==
    {[Height |-> v.Height, Round |-> v.Round, Step |-> voteToStep(v),
      Signature |-> Nil, SignBytes |-> Some(VoteSignBytes(ChainID, v))] :
        v \in {w \in Votes : /\ w.Height = MaxHeight
                             /\ w.BlockID = "A"
                             /\ w.Timestamp = 1}}
    \cup
    {[Height |-> p.Height, Round |-> p.Round, Step |-> stepPropose,
      Signature |-> Nil, SignBytes |-> Some(ProposalSignBytes(ChainID, p))] :
        p \in {q \in Proposals : /\ q.Height = MaxHeight
                                 /\ q.BlockID = "A"
                                 /\ q.Timestamp = 1}}

InitCorruptState ==
    /\ NoLibs
    /\ \E k \in PrivKeys, w \in CorruptWatermarks :
          /\ keyFile = Some(MarshalKey(NewFilePV(k).Key))
          /\ stateFile = Some(MarshalLSS(w))
          /\ pv = loadFilePV(keyFile[1], stateFile[1], TRUE)
    /\ pc = "idle"
    /\ call = NoCall
    /\ msg = NoMsg
    /\ ret = ""
    /\ local = NoLocal
    /\ hist = [kind |-> "off", v |-> Nil, broken |-> FALSE]

SpecCorruptState == InitCorruptState /\ [][Next]_vars

\* ---------------------------------------------------------------- GenFilePV
\* A process that starts with no validator: it generates one (GenFilePV), or
\* loads the one on disk and generates one when there is none
\* (LoadOrGenFilePV). keyGen returns a key or an error.
KeyGenError == "keyGen failed"
OtherKey == "k0"
\* keyGen returns a key or fails; the specification of LoadOrGenFilePV on its
\* own (hist.kind = "plain") has it return one of two keys.
KeyGenResults ==
    IF hist.kind = "plain" THEN PrivKeys \cup {OtherKey, KeyGenError}
    ELSE PrivKeys \cup {KeyGenError}

\* GenFilePV followed by Save().
GenFilePVSaves ==
    \E key \in KeyGenResults :
        /\ pc = "dead"
        /\ UNCHANGED libVars
        /\ IF key = KeyGenError
           THEN /\ ret' = KeyGenError
                /\ UNCHANGED <<pv, keyFile, stateFile, pc, call, msg, hist>>
           ELSE /\ SaveFiles("GenFilePV", NewFilePV(key))
                /\ msg' = NoMsg
                /\ BreakHist
        /\ UNCHANGED local

\* GenFilePV: keyGen(), then NewFilePV with the key; no file is written.
GenFilePV ==
    \E key \in KeyGenResults :
        /\ pc = "dead"
        /\ UNCHANGED libVars
        /\ IF key = KeyGenError
           THEN /\ ret' = KeyGenError
                /\ UNCHANGED <<pv, pc, call, msg, hist>>
           ELSE /\ pv' = NewFilePV(key)
                /\ pc' = "returned"
                /\ call' = [op |-> "GenFilePV"]
                /\ msg' = NoMsg
                /\ ret' = "ok"
                /\ BreakHist
        /\ UNCHANGED <<keyFile, stateFile, local>>

\* LoadOrGenFilePV generating anew whether or not the key file exists.
LoadOrGenFilePVAlwaysGenerates ==
    \E key \in KeyGenResults :
        /\ pc = "dead"
        /\ UNCHANGED libVars
        /\ IF key = KeyGenError
           THEN /\ ret' = KeyGenError
                /\ UNCHANGED <<pv, keyFile, stateFile, pc, call, msg, hist>>
           ELSE /\ SaveFiles("LoadOrGenFilePV", NewFilePV(key))
                /\ msg' = NoMsg
                /\ BreakHist
        /\ UNCHANGED local

\* LoadOrGenFilePV: LoadFilePV when the key file exists, else GenFilePV and
\* Save().
LoadOrGenFilePV ==
    \E key \in KeyGenResults :
        /\ pc = "dead"
        /\ UNCHANGED libVars
        /\ IF keyFile # Nil
           THEN /\ IF stateFile = Nil
                   THEN /\ ret' = "exit"
                        /\ UNCHANGED <<pv, pc, call, msg, hist>>
                   ELSE /\ pv' = loadFilePV(keyFile[1], stateFile[1], TRUE)
                        /\ pc' = "returned"
                        /\ call' = [op |-> "LoadOrGenFilePV"]
                        /\ msg' = NoMsg
                        /\ ret' = "ok"
                        /\ hist' = Forget
                /\ UNCHANGED <<keyFile, stateFile>>
           ELSE IF key = KeyGenError
                THEN /\ ret' = KeyGenError
                     /\ UNCHANGED <<pv, keyFile, stateFile, pc, call, msg, hist>>
                ELSE /\ SaveFiles("LoadOrGenFilePV", NewFilePV(key))
                     /\ msg' = NoMsg
                     /\ BreakHist
        /\ UNCHANGED local

InitGenFilePV ==
    /\ NoLibs
    /\ pv = NoPV
    /\ keyFile = Nil
    /\ stateFile = Nil
    /\ pc = "dead"
    /\ call = NoCall
    /\ msg = NoMsg
    /\ ret = ""
    /\ local = NoLocal
    /\ hist = [kind |-> "off", v |-> Nil, broken |-> FALSE]

NextGenFilePV ==
    \/ GenFilePV
    \/ LoadOrGenFilePV
    \/ SignVote
    \/ SignProposal
    \/ SaveSigned
    \/ StampSignature
    \/ SignBytes
    \/ Save
    \/ Reset
    \/ Return
    \/ Crash
    \/ LoadFilePV

SpecGenFilePV == InitGenFilePV /\ [][NextGenFilePV]_vars

\* The same with two keys for keyGen to return, requests of one timestamp
\* without extension data, and no observer.
InitLoadOrGenFilePV ==
    /\ NoLibs
    /\ pv = NoPV
    /\ keyFile = Nil
    /\ stateFile = Nil
    /\ pc = "dead"
    /\ call = NoCall
    /\ msg = NoMsg
    /\ ret = ""
    /\ local = NoLocal
    /\ hist = [kind |-> "plain", v |-> Nil, broken |-> FALSE]

SpecLoadOrGenFilePV == InitLoadOrGenFilePV /\ [][NextGenFilePV]_vars

\* ----------------------------------------------------------------- key file
\* A process that starts from files it did not write: the key file holds any
\* address and public key next to the private key, those of another key
\* included; the state file is absent or holds a watermark without sign
\* bytes. There is no observer (hist.kind = "plain") and the requests are
\* the plain ones: votes without extensions, proposals with one timestamp.
KeyFiles ==
    [address : {AddressOf(PubKeyOf(k)) : k \in PrivKeys \cup {OtherKey}},
     pub_key : {PubKeyOf(k) : k \in PrivKeys \cup {OtherKey}},
     priv_key : PrivKeys]

InitKeyFile ==
    /\ NoLibs
    /\ pv = NoPV
    /\ keyFile \in {Some(k) : k \in KeyFiles}
    /\ stateFile \in {Nil} \cup {Some(MarshalLSS(w)) : w \in FileWatermarks}
    /\ pc = "dead"
    /\ call = NoCall
    /\ msg = NoMsg
    /\ ret = ""
    /\ local = NoLocal
    /\ hist = [kind |-> "plain", v |-> Nil, broken |-> FALSE]

SpecKeyFile == InitKeyFile /\ [][Next]_vars

\* ---------------------------------------------------------- WriteFileAtomic
\* LastSignState.Save() with the steps of the atomic writer: the bytes go,
\* field by field, to a temporary file next to the state file, which is then
\* chmodded, fsynced and renamed over the state file. Every step can fail,
\* and Save() panics; the process can be killed at every step. The
\* temporary file is the writer's own (local): no load reads it.
FieldOrder == <<"height", "round", "step", "signature", "signbytes">>

\* The first n fields of the encoded state.
Prefix(json, n) ==
    [f \in {FieldOrder[i] : i \in 1..n} \cap DOMAIN json |-> json[f]]

\* The watermarks Save() is called with: none or both of sign bytes and
\* signature.
SavedWatermarks ==
    [Height : 0..MaxHeight, Round : {0}, Step : stepNone..stepPrecommit,
     Signature : {Nil}, SignBytes : {Nil}]
    \cup
    {[Height |-> h, Round |-> 0, Step |-> st,
      Signature |-> Sign(k, b), SignBytes |-> Some(b)] :
        h \in Heights, st \in stepPropose..stepPrecommit,
        k \in PrivKeys, b \in RawBytes}

InitWriteFileAtomic ==
    /\ NoLibs
    /\ \E k \in PrivKeys, onDisk \in SavedWatermarks, inMemory \in SavedWatermarks :
          /\ keyFile = Some(MarshalKey(NewFilePV(k).Key))
          /\ stateFile = Some(MarshalLSS(onDisk))
          /\ pv = [NewFilePV(k) EXCEPT !.LastSignState = inMemory]
    /\ pc = "idle"
    /\ call = NoCall
    /\ msg = NoMsg
    /\ ret = ""
    /\ local = NoLocal
    /\ hist = [kind |-> "off", v |-> Nil, broken |-> FALSE]

\* lss.Save(): MarshalIndent, then WriteFileAtomic creates the temporary file.
LastSignStateSave ==
    /\ pc = "idle"
    /\ UNCHANGED libVars
    /\ pc' = "write"
    /\ call' = [op |-> "LastSignState.Save"]
    /\ msg' = NoMsg
    /\ ret' = "pending"
    /\ local' = [data |-> MarshalLSS(pv.LastSignState), n |-> 0]
    /\ UNCHANGED <<pv, keyFile, stateFile, hist>>

\* The next field written over the state file itself.
WriteTmpInPlace ==
    /\ pc = "write"
    /\ UNCHANGED libVars
    /\ local' = [local EXCEPT !.n = local.n + 1]
    /\ stateFile' = Some(Prefix(local.data, local.n + 1))
    /\ pc' = IF local.n + 1 = Len(FieldOrder) THEN "chmod" ELSE "write"
    /\ UNCHANGED <<pv, keyFile, call, msg, ret, hist>>

\* The next field is written to the temporary file.
WriteTmp ==
    /\ pc = "write"
    /\ UNCHANGED libVars
    /\ local' = [local EXCEPT !.n = local.n + 1]
    /\ pc' = IF local.n + 1 = Len(FieldOrder) THEN "chmod" ELSE "write"
    /\ UNCHANGED <<pv, keyFile, stateFile, call, msg, ret, hist>>

ChmodTmp ==
    /\ pc = "chmod"
    /\ UNCHANGED libVars
    /\ pc' = "fsync"
    /\ UNCHANGED <<pv, keyFile, stateFile, call, msg, ret, local, hist>>

FsyncTmp ==
    /\ pc = "fsync"
    /\ UNCHANGED libVars
    /\ pc' = "rename"
    /\ UNCHANGED <<pv, keyFile, stateFile, call, msg, ret, local, hist>>

\* The temporary file replaces the state file; Save() returns.
RenameTmp ==
    /\ pc = "rename"
    /\ UNCHANGED libVars
    /\ stateFile' = Some(Prefix(local.data, local.n))
    /\ pc' = "returned"
    /\ ret' = "ok"
    /\ local' = NoLocal
    /\ UNCHANGED <<pv, keyFile, call, msg, hist>>

\* A step of the writer fails with an I/O error: Save() panics.
WriteFails ==
    /\ pc \in {"write", "chmod", "fsync", "rename"}
    /\ UNCHANGED libVars
    /\ pc' = "dead"
    /\ pv' = NoPV
    /\ call' = [op |-> "Crash", at |-> pc, writing |-> local.data]
    /\ msg' = NoMsg
    /\ ret' = "panic"
    /\ local' = NoLocal
    /\ UNCHANGED <<keyFile, stateFile, hist>>

\* The process is killed inside the writer.
KillInWrite ==
    /\ pc \in {"write", "chmod", "fsync", "rename"}
    /\ UNCHANGED libVars
    /\ pc' = "dead"
    /\ pv' = NoPV
    /\ call' = [op |-> "Crash", at |-> pc, writing |-> local.data]
    /\ msg' = NoMsg
    /\ ret' = "crash"
    /\ local' = NoLocal
    /\ UNCHANGED <<keyFile, stateFile, hist>>

NextWriteFileAtomic ==
    \/ LastSignStateSave
    \/ WriteTmp
    \/ ChmodTmp
    \/ FsyncTmp
    \/ RenameTmp
    \/ WriteFails
    \/ KillInWrite
    \/ Return
    \/ Crash
    \/ LoadFilePV

SpecWriteFileAtomic == InitWriteFileAtomic /\ [][NextWriteFileAtomic]_vars

\* -------------------------------------------------------- RetrySignerClient
\* RetrySignerClient: each operation calls the wrapped SignerClient in the
\* loop  for i := 0; i < sc.retries || sc.retries == 0; i++ . The wrapped
\* call succeeds, fails with a RemoteSignerError, or fails with another error
\* (the connection timed out, was closed). call holds the operation and the
\* client's retries; local holds i and err, and, for the record, the number
\* of calls made to the wrapped client and the outcome of the last one.
RetryOps == {"RetrySignerClient.GetPubKey", "RetrySignerClient.SignVote",
             "RetrySignerClient.SignProposal", "RetrySignerClient.SignBytes"}
RetriesValues == -1..3
\* The iterations followed when the client retries indefinitely.
Iterations == 0..4
\* A nil error, the errors of the wrapped client, and fmt.Errorf("exhausted
\* all attempts to ...: %w", err).
NilErr == [kind |-> "nil", text |-> ""]
RemoteSignerErrors == {[kind |-> "RemoteSignerError", text |-> "double sign"]}
OtherErrors == {[kind |-> "error", text |-> "timeout"],
                [kind |-> "error", text |-> "closed"]}
NextOutcomes == {NilErr} \cup RemoteSignerErrors \cup OtherErrors
Exhausted(op, err) == [kind |-> "exhausted", text |-> op, wraps |-> err]

InitRetry ==
    /\ NoLibs
    /\ pv = NoPV
    /\ keyFile = Nil
    /\ stateFile = Nil
    /\ pc = "idle"
    /\ call = NoCall
    /\ msg = NoMsg
    /\ ret = ""
    /\ local = NoLocal
    /\ hist = [kind |-> "off", v |-> Nil, broken |-> FALSE]

\* The operation op is called on a client with the given retries.
RetryBegin(op, retries) ==
    /\ pc = "idle"
    /\ UNCHANGED libVars
    /\ pc' = "loop"
    /\ call' = [op |-> op, retries |-> retries]
    /\ ret' = "pending"
    /\ local' = [i |-> 0, err |-> NilErr, calls |-> 0, last |-> NilErr]
    /\ UNCHANGED <<pv, keyFile, stateFile, msg, hist>>

RetryGetPubKey ==
    \E retries \in RetriesValues :
        RetryBegin("RetrySignerClient.GetPubKey", retries)

RetrySignVote ==
    \E retries \in RetriesValues :
        RetryBegin("RetrySignerClient.SignVote", retries)

RetrySignProposal ==
    \E retries \in RetriesValues :
        RetryBegin("RetrySignerClient.SignProposal", retries)

RetrySignBytes ==
    \E retries \in RetriesValues :
        RetryBegin("RetrySignerClient.SignBytes", retries)

\* The loop with the condition i <= sc.retries.
RetryAttemptOneMore ==
    /\ pc = "loop"
    /\ UNCHANGED libVars
    /\ IF local.i <= call.retries \/ call.retries = 0
       THEN \E outcome \in NextOutcomes :
               /\ local' = [local EXCEPT !.err = outcome,
                                         !.calls = local.calls + 1,
                                         !.last = outcome]
               /\ IF outcome = NilErr
                  THEN pc' = "returned" /\ ret' = NilErr
                  ELSE IF outcome \in RemoteSignerErrors
                  THEN pc' = "returned" /\ ret' = outcome
                  ELSE pc' = "sleep" /\ ret' = ret
       ELSE /\ pc' = "returned"
            /\ ret' = Exhausted(call.op, local.err)
            /\ local' = local
    /\ UNCHANGED <<pv, keyFile, stateFile, call, msg, hist>>

\* The loop without the return on a remote-signer error.
RetryAttemptRetriesRemote ==
    /\ pc = "loop"
    /\ UNCHANGED libVars
    /\ IF local.i < call.retries \/ call.retries = 0
       THEN \E outcome \in NextOutcomes :
               /\ local' = [local EXCEPT !.err = outcome,
                                         !.calls = local.calls + 1,
                                         !.last = outcome]
               /\ IF outcome = NilErr
                  THEN pc' = "returned" /\ ret' = NilErr
                  ELSE pc' = "sleep" /\ ret' = ret
       ELSE /\ pc' = "returned"
            /\ ret' = Exhausted(call.op, local.err)
            /\ local' = local
    /\ UNCHANGED <<pv, keyFile, stateFile, call, msg, hist>>

\* The loop condition, and when it holds the call of the wrapped client with
\* the two returns of the loop body; when it does not, the return after the
\* loop.
RetryAttempt ==
    /\ pc = "loop"
    /\ UNCHANGED libVars
    /\ IF local.i < call.retries \/ call.retries = 0
       THEN \E outcome \in NextOutcomes :
               /\ local' = [local EXCEPT !.err = outcome,
                                         !.calls = local.calls + 1,
                                         !.last = outcome]
               /\ IF outcome = NilErr
                  THEN pc' = "returned" /\ ret' = NilErr
                  ELSE IF outcome \in RemoteSignerErrors
                  THEN pc' = "returned" /\ ret' = outcome
                  ELSE pc' = "sleep" /\ ret' = ret
       ELSE /\ pc' = "returned"
            /\ ret' = Exhausted(call.op, local.err)
            /\ local' = local
    /\ UNCHANGED <<pv, keyFile, stateFile, call, msg, hist>>

\* time.Sleep(sc.timeout); i++
RetrySleep ==
    /\ pc = "sleep"
    /\ UNCHANGED libVars
    /\ local.i + 1 \in Iterations
    /\ pc' = "loop"
    /\ local' = [local EXCEPT !.i = local.i + 1]
    /\ UNCHANGED <<pv, keyFile, stateFile, call, msg, ret, hist>>

\* The caller takes the result.
RetryReturn ==
    /\ pc = "returned"
    /\ UNCHANGED libVars
    /\ pc' = "idle"
    /\ call' = NoCall
    /\ ret' = ""
    /\ local' = NoLocal
    /\ UNCHANGED <<pv, keyFile, stateFile, msg, hist>>

NextRetry ==
    \/ RetryGetPubKey
    \/ RetrySignVote
    \/ RetrySignProposal
    \/ RetrySignBytes
    \/ RetryAttempt
    \/ RetrySleep
    \/ RetryReturn

SpecRetry == InitRetry /\ [][NextRetry]_vars

\* ----------------------------------------------------------------- BitArray
\* internal/bits.BitArray. A uint64 of Elems is the set of its one bits
\* (positions 0..63); mtx is the goroutine holding the mutex, 0 when it is
\* free. NilBA is the nil *BitArray.
WordBits == 0..63
NilBA == [nil |-> TRUE]
IsNilBA(bA) == "nil" \in DOMAIN bA
MaxInt(a, b) == IF a > b THEN a ELSE b
MinInt(a, b) == IF a < b THEN a ELSE b
NumElems(bits) == (bits + 63) \div 64

NewBitArray(bits) ==
    IF bits <= 0 THEN NilBA
    ELSE [mtx |-> 0, TrueBitCount |-> 0, Bits |-> bits,
          Elems |-> [k \in 1..NumElems(bits) |-> {}]]

\* NewBitArrayFromFn, fn being true on the indexes of trueAt.
NewBitArrayFromFn(bits, trueAt) ==
    IF bits <= 0 THEN NilBA
    ELSE [mtx |-> 0,
          TrueBitCount |-> Cardinality(trueAt \cap (0..(bits - 1))),
          Bits |-> bits,
          Elems |-> [k \in 1..NumElems(bits) |->
                       {i % 64 : i \in {j \in trueAt \cap (0..(bits - 1)) :
                                            j \div 64 = k - 1}}]]

getIndex(bA, i) ==
    IF i >= bA.Bits THEN FALSE ELSE (i % 64) \in bA.Elems[(i \div 64) + 1]

\* setIndex: [ok, bA].
setIndex(bA, i, v) ==
    IF i >= bA.Bits THEN [ok |-> FALSE, bA |-> bA]
    ELSE LET oldValue == getIndex(bA, i)
             k == (i \div 64) + 1
         IN  IF v
             THEN [ok |-> TRUE,
                   bA |-> [bA EXCEPT
                             !.TrueBitCount = IF ~oldValue THEN @ + 1 ELSE @,
                             !.Elems[k] = @ \cup {i % 64}]]
             ELSE [ok |-> TRUE,
                   bA |-> [bA EXCEPT
                             !.TrueBitCount = IF oldValue THEN @ - 1 ELSE @,
                             !.Elems[k] = @ \ {i % 64}]]

\* bA.copy(): a new array (its mutex free) with the same fields.
copy(bA) ==
    [mtx |-> 0, TrueBitCount |-> bA.TrueBitCount, Bits |-> bA.Bits,
     Elems |-> bA.Elems]

\* bA.copyBits(bits): the elements that fit are copied, the true bits among
\* the first bits bits are counted.
copyBits(bA, bits) ==
    LET c == [k \in 1..NumElems(bits) |->
                 IF k <= Len(bA.Elems) THEN bA.Elems[k] ELSE {}]
    IN  [mtx |-> 0,
         TrueBitCount |->
             Cardinality({i \in 0..(bits - 1) : (i % 64) \in c[(i \div 64) + 1]}),
         Bits |-> bits,
         Elems |-> c]

\* The array Or returns once both mutexes are held (neither operand nil):
\* the copy of bA, then c.Elems[i] |= o.Elems[i].
orBody(bA, o) ==
    LET c == copyBits(bA, MaxInt(bA.Bits, o.Bits))
        smaller == MinInt(Len(bA.Elems), Len(o.Elems))
    IN  [c EXCEPT !.Elems = [k \in DOMAIN c.Elems |->
                                IF k <= smaller THEN c.Elems[k] \cup o.Elems[k]
                                ELSE c.Elems[k]]]

\* bA.and(o).
and(bA, o) ==
    LET c == copyBits(bA, MinInt(bA.Bits, o.Bits))
    IN  [c EXCEPT !.Elems = [k \in DOMAIN c.Elems |->
                                c.Elems[k] \cap o.Elems[k]]]

\* bA.not().
not(bA) ==
    LET c == copy(bA)
    IN  [c EXCEPT !.Elems = [k \in DOMAIN c.Elems |-> WordBits \ c.Elems[k]],
                  !.TrueBitCount = c.Bits - c.TrueBitCount]

\* The array Sub returns once both mutexes are held.
subBody(bA, o) ==
    LET c == copyBits(bA, bA.Bits)
        smaller == MinInt(Len(bA.Elems), Len(o.Elems))
    IN  [c EXCEPT !.Elems = [k \in DOMAIN c.Elems |->
                                IF k <= smaller THEN c.Elems[k] \ o.Elems[k]
                                ELSE c.Elems[k]]]

\* bA after Update(o) once both mutexes are held: copy(bA.Elems, o.Elems).
updateBody(bA, o) ==
    [bA EXCEPT !.Elems = [k \in DOMAIN bA.Elems |->
                             IF k <= Len(o.Elems) THEN o.Elems[k]
                             ELSE bA.Elems[k]]]

\* The indexes of the one bits of all the elements.
OneBits(bA) ==
    {(k - 1) * 64 + j : k \in DOMAIN bA.Elems, j \in WordBits} \cap
    {i \in 0..(64 * Len(bA.Elems) - 1) : (i % 64) \in bA.Elems[(i \div 64) + 1]}

\* getNthTrueIndex: the elements are scanned in order, the one bits counted;
\* the index of the one bit that n one bits precede, -1 when there is none.
getNthTrueIndex(bA, n) ==
    LET ones == OneBits(bA)
    IN  IF n >= 0 /\ n < Cardinality(ones)
        THEN CHOOSE x \in ones : Cardinality({y \in ones : y < x}) = n
        ELSE -1

\* PickRandom with r.Intn(bA.TrueBitCount) = n: [index, ok].
PickRandom(bA, n) ==
    IF bA.TrueBitCount = 0 THEN [index |-> 0, ok |-> FALSE]
    ELSE LET index == getNthTrueIndex(bA, n)
         IN  IF index = -1 THEN [index |-> 0, ok |-> FALSE]
             ELSE [index |-> index, ok |-> TRUE]

\* --------------------------------------------------- BitArray, goroutines
\* Two goroutines call operations on two shared arrays of one bit. An
\* operation with two operands locks bA.mtx, then o.mtx; a Lock blocks while
\* the mutex is held, by any goroutine, the caller included.
Arrays == {"a", "b"}
Goroutines == {1, 2}
TwoOperandOps == {"Or", "And", "Sub", "Update"}
Idle == [pc |-> "idle", op |-> "", bA |-> "", o |-> ""]

InitGoroutines ==
    /\ pv = NoPV
    /\ keyFile = Nil
    /\ stateFile = Nil
    /\ pc = "idle"
    /\ call = NoCall
    /\ msg = NoMsg
    /\ ret = ""
    /\ local = NoLocal
    /\ hist = [kind |-> "off", v |-> Nil, broken |-> FALSE]
    /\ bitArrays \in [Arrays -> {NewBitArrayFromFn(1, t) : t \in SUBSET {0}}]
    /\ goroutines = [g \in Goroutines |-> Idle]
    /\ hvs = << >>

\* Goroutine g calls bA.op(o).
GoCall(g, op, bA, o) ==
    /\ goroutines[g].pc = "idle"
    /\ goroutines' = [goroutines EXCEPT
                         ![g] = [pc |-> "lockBA", op |-> op, bA |-> bA, o |-> o]]
    /\ UNCHANGED <<bitArrays, hvs>>
    /\ UNCHANGED pvVars

GoOr == \E g \in Goroutines, bA \in Arrays, o \in Arrays : GoCall(g, "Or", bA, o)
GoAnd == \E g \in Goroutines, bA \in Arrays, o \in Arrays : GoCall(g, "And", bA, o)
GoSub == \E g \in Goroutines, bA \in Arrays, o \in Arrays : GoCall(g, "Sub", bA, o)
GoUpdate ==
    \E g \in Goroutines, bA \in Arrays, o \in Arrays : GoCall(g, "Update", bA, o)
GoNot == \E g \in Goroutines, bA \in Arrays : GoCall(g, "Not", bA, bA)

\* bA.mtx.Lock()
LockBA ==
    \E g \in Goroutines :
        /\ goroutines[g].pc = "lockBA"
        /\ bitArrays[goroutines[g].bA].mtx = 0
        /\ bitArrays' = [bitArrays EXCEPT ![goroutines[g].bA].mtx = g]
        /\ goroutines' = [goroutines EXCEPT
                             ![g].pc = IF goroutines[g].op \in TwoOperandOps
                                       THEN "lockO" ELSE "body"]
        /\ UNCHANGED hvs
        /\ UNCHANGED pvVars

\* o.mtx.Lock()
LockO ==
    \E g \in Goroutines :
        /\ goroutines[g].pc = "lockO"
        /\ bitArrays[goroutines[g].o].mtx = 0
        /\ bitArrays' = [bitArrays EXCEPT ![goroutines[g].o].mtx = g]
        /\ goroutines' = [goroutines EXCEPT ![g].pc = "body"]
        /\ UNCHANGED hvs
        /\ UNCHANGED pvVars

\* The statements between the locks and the unlocks, and both unlocks (their
\* order cannot block anyone).
Body ==
    \E g \in Goroutines :
        LET gr == goroutines[g]
            unlocked == [bitArrays EXCEPT ![gr.bA].mtx = 0, ![gr.o].mtx = 0]
        IN  /\ gr.pc = "body"
            /\ bitArrays' =
                  IF gr.op = "Update"
                  THEN [unlocked EXCEPT
                          ![gr.bA] = [updateBody(bitArrays[gr.bA], bitArrays[gr.o])
                                         EXCEPT !.mtx = 0]]
                  ELSE unlocked
            /\ goroutines' = [goroutines EXCEPT ![g] = Idle]
            /\ UNCHANGED hvs
            /\ UNCHANGED pvVars

NextGoroutines ==
    \/ GoOr
    \/ GoAnd
    \/ GoSub
    \/ GoUpdate
    \/ GoNot
    \/ LockBA
    \/ LockO
    \/ Body

SpecGoroutines == InitGoroutines /\ [][NextGoroutines]_vars

\* ------------------------------------------------- BitArray, one caller
\* One goroutine works on the two variables a and b, each nil or an array of
\* 2 bits (one element) or 65 bits (two elements). The result of an operation
\* that returns an array is assigned to a variable. ret is what PickRandom
\* returned. A call with the same array as both operands blocks for ever on
\* its second Lock, and r.Intn panics on a negative TrueBitCount.
BitSizes == {0, 2, 65}
Indexes == {0, 64}
TrueBitCounts == -1..3
NoPick == [op |-> "", bA |-> "", index |-> 0, ok |-> FALSE]

InitBitArray ==
    /\ pv = NoPV
    /\ keyFile = Nil
    /\ stateFile = Nil
    /\ pc = "idle"
    /\ call = NoCall
    /\ msg = NoMsg
    /\ ret = NoPick
    /\ local = NoLocal
    /\ hist = [kind |-> "off", v |-> Nil, broken |-> FALSE]
    /\ bitArrays \in [Arrays -> {NewBitArray(bits) : bits \in BitSizes}]
    /\ goroutines = << >>
    /\ hvs = << >>

\* to = result, the call having returned.
Assign(to, result) ==
    /\ pc = "idle"
    /\ ~IsNilBA(result) => result.TrueBitCount \in TrueBitCounts
    /\ bitArrays' = [bitArrays EXCEPT ![to] = result]
    /\ UNCHANGED <<pv, keyFile, stateFile, pc, call, msg, ret, local, hist>>
    /\ UNCHANGED <<goroutines, hvs>>

\* The second Lock of a two-operand call on one array never returns.
Blocks ==
    /\ pc = "idle"
    /\ pc' = "blocked"
    /\ UNCHANGED <<pv, keyFile, stateFile, call, msg, ret, local, hist>>
    /\ UNCHANGED libVars

CallNewBitArray ==
    \E to \in Arrays, bits \in BitSizes : Assign(to, NewBitArray(bits))

CallSetIndex ==
    \E x \in Arrays, i \in Indexes, v \in BOOLEAN :
        IF IsNilBA(bitArrays[x]) THEN Assign(x, bitArrays[x])
        ELSE Assign(x, setIndex(bitArrays[x], i, v).bA)

CallCopy ==
    \E to \in Arrays, x \in Arrays :
        IF IsNilBA(bitArrays[x]) THEN Assign(to, NilBA)
        ELSE Assign(to, copy(bitArrays[x]))

CallOr ==
    \E to \in Arrays, x \in Arrays, y \in Arrays :
        LET bA == bitArrays[x]
            o == bitArrays[y]
        IN  IF IsNilBA(bA) /\ IsNilBA(o) THEN Assign(to, NilBA)
            ELSE IF IsNilBA(bA) THEN Assign(to, copy(o))
            ELSE IF IsNilBA(o) THEN Assign(to, copy(bA))
            ELSE IF x = y THEN Blocks
            ELSE Assign(to, orBody(bA, o))

CallAnd ==
    \E to \in Arrays, x \in Arrays, y \in Arrays :
        LET bA == bitArrays[x]
            o == bitArrays[y]
        IN  IF IsNilBA(bA) \/ IsNilBA(o) THEN Assign(to, NilBA)
            ELSE IF x = y THEN Blocks
            ELSE Assign(to, and(bA, o))

CallSub ==
    \E to \in Arrays, x \in Arrays, y \in Arrays :
        LET bA == bitArrays[x]
            o == bitArrays[y]
        IN  IF IsNilBA(bA) \/ IsNilBA(o) THEN Assign(to, NilBA)
            ELSE IF x = y THEN Blocks
            ELSE Assign(to, subBody(bA, o))

CallNot ==
    \E to \in Arrays, x \in Arrays :
        IF IsNilBA(bitArrays[x]) THEN Assign(to, NilBA)
        ELSE Assign(to, not(bitArrays[x]))

CallUpdate ==
    \E x \in Arrays, y \in Arrays :
        LET bA == bitArrays[x]
            o == bitArrays[y]
        IN  IF IsNilBA(bA) \/ IsNilBA(o) THEN Assign(x, bA)
            ELSE IF x = y THEN Blocks
            ELSE Assign(x, updateBody(bA, o))

CallPickRandom ==
    \E x \in Arrays :
        LET bA == bitArrays[x]
        IN  /\ pc = "idle"
            /\ UNCHANGED libVars
            /\ UNCHANGED <<pv, keyFile, stateFile, call, msg, local, hist>>
            /\ IF IsNilBA(bA)
               THEN /\ ret' = [op |-> "PickRandom", bA |-> x, index |-> 0,
                               ok |-> FALSE]
                    /\ pc' = pc
               ELSE IF bA.TrueBitCount < 0
               THEN /\ ret' = [op |-> "panic", bA |-> x, index |-> 0,
                               ok |-> FALSE]
                    /\ pc' = "dead"
               ELSE \E n \in 0..MaxInt(bA.TrueBitCount - 1, 0) :
                        /\ ret' = [op |-> "PickRandom", bA |-> x,
                                   index |-> PickRandom(bA, n).index,
                                   ok |-> PickRandom(bA, n).ok]
                        /\ pc' = pc

NextBitArray ==
    \/ CallNewBitArray
    \/ CallSetIndex
    \/ CallCopy
    \/ CallOr
    \/ CallAnd
    \/ CallSub
    \/ CallNot
    \/ CallUpdate
    \/ CallPickRandom

SpecBitArray == InitBitArray /\ [][NextBitArray]_vars

\* ------------------------------------------------------------ HeightVoteSet
\* consensus/types.HeightVoteSet: round, roundVoteSets (a map from the rounds
\* that have vote sets to their two vote sets, each the set of validators
\* whose vote it holds), peerCatchupRounds (a map from the peers that have
\* an entry to their list of rounds) and extensionsEnabled. ret is what the
\* last call returned; a panic ends the process.
Peers == {"", "peer1"}
Validators == {"val1"}
VoteRounds == 0..3
RoundArgs == 0..2
\* The votes AddVote is called with: precommits and votes of an invalid type
\* for every round, prevotes for the last one.
AddVoteVotes ==
    {v \in [Round : VoteRounds,
            Type : {PrevoteType, PrecommitType, ProposalType},
            ValidatorAddress : Validators] :
        v.Type = PrevoteType => v.Round = 3}
NoVoteSets == [Prevotes |-> {}, Precommits |-> {}]
NoRet == [op |-> "", round |-> 0, peerID |-> "", added |-> FALSE, err |-> ""]

\* math.SafeSubInt32(a, b): a - b, a panic when it leaves int32.
SafeSubInt32(a, b) == a - b

IsVoteTypeValid(t) == t \in {PrevoteType, PrecommitType}

\* hvs.addRound(round), the round having no vote sets.
addRound(h, round) ==
    [h EXCEPT !.roundVoteSets =
        [r \in DOMAIN h.roundVoteSets \cup {round} |->
            IF r = round THEN NoVoteSets ELSE h.roundVoteSets[r]]]

\* hvs.getVoteSet(round, voteType) is not nil.
HasVoteSet(h, round) == round \in DOMAIN h.roundVoteSets

\* The vote set of a valid vote type, as a field name.
VoteSetOf(t) == IF t = PrevoteType THEN "Prevotes" ELSE "Precommits"

\* hvs after Reset.
ResetHVS(h) ==
    [addRound([h EXCEPT !.roundVoteSets = << >>, !.peerCatchupRounds = << >>], 0)
        EXCEPT !.round = 0]

InitHeightVoteSet ==
    /\ pv = NoPV
    /\ keyFile = Nil
    /\ stateFile = Nil
    /\ pc = "idle"
    /\ call = NoCall
    /\ msg = NoMsg
    /\ ret = NoRet
    /\ local = NoLocal
    /\ hist = [kind |-> "off", v |-> Nil, broken |-> FALSE]
    /\ bitArrays = << >>
    /\ goroutines = << >>
    /\ hvs \in {ResetHVS([round |-> 0, roundVoteSets |-> << >>,
                          peerCatchupRounds |-> << >>,
                          extensionsEnabled |-> e]) : e \in BOOLEAN}

HeightVoteSetReset ==
    /\ pc = "idle"
    /\ hvs' = ResetHVS(hvs)
    /\ ret' = [NoRet EXCEPT !.op = "Reset"]
    /\ UNCHANGED <<pv, keyFile, stateFile, pc, call, msg, local, hist>>
    /\ UNCHANGED <<bitArrays, goroutines>>

SetRound ==
    \E round \in RoundArgs :
        LET newRound == SafeSubInt32(hvs.round, 1)
        IN  /\ pc = "idle"
            /\ UNCHANGED <<pv, keyFile, stateFile, call, msg, local, hist>>
            /\ UNCHANGED <<bitArrays, goroutines>>
            /\ IF hvs.round # 0 /\ round < newRound
               THEN /\ pc' = "dead"
                    /\ ret' = [NoRet EXCEPT !.op = "panic", !.round = round]
                    /\ hvs' = hvs
               ELSE /\ pc' = pc
                    /\ ret' = [NoRet EXCEPT !.op = "SetRound", !.round = round]
                    /\ hvs' = [hvs EXCEPT
                         !.round = round,
                         !.roundVoteSets =
                             [r \in DOMAIN hvs.roundVoteSets \cup (newRound..round) |->
                                 IF r \in DOMAIN hvs.roundVoteSets
                                 THEN hvs.roundVoteSets[r] ELSE NoVoteSets]]

\* hvs.peerCatchupRounds[peerID], the empty list when the map has no entry.
CatchupRounds(h, peerID) ==
    IF peerID \in DOMAIN h.peerCatchupRounds THEN h.peerCatchupRounds[peerID]
    ELSE << >>

\* voteSet.AddVote(vote) of the vote set found or created in h: a duplicate
\* returns (false, nil); another vote is added, or refused with an error.
VoteSetAddVote(h, round, type, val, args) ==
    LET field == VoteSetOf(type)
    IN  IF val \in h.roundVoteSets[round][field]
        THEN /\ hvs' = h
             /\ ret' = [args EXCEPT !.op = "AddVote"]
        ELSE \/ /\ hvs' = [h EXCEPT !.roundVoteSets[round][field] = @ \cup {val}]
                /\ ret' = [args EXCEPT !.op = "AddVote", !.added = TRUE]
             \/ /\ hvs' = h
                /\ ret' = [args EXCEPT !.op = "AddVote", !.err = "VoteSet.AddVote"]

AddVoteWith(limit) ==
    \E vote \in AddVoteVotes, peerID \in Peers, extEnabled \in BOOLEAN :
        LET round == vote.Round
            type == vote.Type
            val == vote.ValidatorAddress
            args == [NoRet EXCEPT !.round = round, !.peerID = peerID]
            rndz == CatchupRounds(hvs, peerID)
            created ==
                [addRound(hvs, round) EXCEPT
                    !.peerCatchupRounds =
                        [q \in DOMAIN hvs.peerCatchupRounds \cup {peerID} |->
                            IF q = peerID THEN Append(rndz, round)
                            ELSE hvs.peerCatchupRounds[q]]]
        IN  /\ pc = "idle"
            /\ UNCHANGED <<pv, keyFile, stateFile, call, msg, local, hist>>
            /\ UNCHANGED <<bitArrays, goroutines>>
            /\ IF hvs.extensionsEnabled # extEnabled
               THEN /\ pc' = "dead"
                    /\ ret' = [args EXCEPT !.op = "panic"]
                    /\ hvs' = hvs
               ELSE /\ pc' = pc
                    /\ IF ~IsVoteTypeValid(type)
                       THEN /\ ret' = [args EXCEPT !.op = "AddVote",
                                                   !.err = "invalid vote type"]
                            /\ hvs' = hvs
                       ELSE IF HasVoteSet(hvs, round)
                       THEN VoteSetAddVote(hvs, round, type, val, args)
                       ELSE IF Len(rndz) >= limit
                       THEN /\ ret' = [args EXCEPT
                                         !.op = "AddVote",
                                         !.err = "ErrGotVoteFromUnwantedRound"]
                            /\ hvs' = hvs
                       ELSE VoteSetAddVote(created, round, type, val, args)

\* AddVote letting a peer create a third catchup round.
AddVoteThreeRounds == AddVoteWith(3)

AddVote == AddVoteWith(2)

NextHeightVoteSet ==
    \/ HeightVoteSetReset
    \/ SetRound
    \/ AddVote

SpecHeightVoteSet == InitHeightVoteSet /\ [][NextHeightVoteSet]_vars

\* ----------------------------------------------------------------- CheckHRS
\* CheckHRS on its own: the watermark is whatever a state file can hold, the
\* request any (height, round, step).
Watermarks ==
    [Height : 0..MaxHeight, Round : Rounds, Step : stepNone..stepPrecommit,
     Signature : {Nil} \cup {Sign(k, b) : k \in PrivKeys, b \in RawBytes},
     SignBytes : {Nil} \cup {Some(b) : b \in RawBytes}]

InitCheckHRS ==
    /\ NoLibs
    /\ pv \in {[NewFilePV(k) EXCEPT !.LastSignState = lss] :
                  k \in PrivKeys, lss \in Watermarks}
    /\ keyFile = Nil
    /\ stateFile = Nil
    /\ pc = "idle"
    /\ call = NoCall
    /\ msg = NoMsg
    /\ ret = ""
    /\ local = NoLocal
    /\ hist = [kind |-> "off", v |-> Nil, broken |-> FALSE]

CheckHRSCall ==
    \E height \in 0..MaxHeight, round \in Rounds,
       step \in stepNone..stepPrecommit :
        /\ pc = "idle"
        /\ UNCHANGED libVars
        /\ pc' = "returned"
        /\ call' = [op |-> "CheckHRS", height |-> height, round |-> round,
                    step |-> step]
        /\ msg' = CheckHRS(pv.LastSignState, height, round, step)
        /\ ret' = IF msg'.panic THEN "panic" ELSE msg'.err
        /\ UNCHANGED <<pv, keyFile, stateFile, local, hist>>

NextCheckHRS == CheckHRSCall

SpecCheckHRS == InitCheckHRS /\ [][NextCheckHRS]_vars

\* ================================================================== claims
StepOfType(t) ==
    CASE t = ProposalType -> stepPropose
      [] t = PrevoteType -> stepPrevote
      [] t = PrecommitType -> stepPrecommit
      [] OTHER -> -1

\* The (height, round, step) of canonical sign bytes.
BytesHRS(b) == <<b.Height, b.Round, StepOfType(b.Type)>>

\* Two canonical messages that are equal, or differ in the timestamp only.
OnlyTimestampDiffers(a, b) ==
    [a EXCEPT !.Timestamp = 0] = [b EXCEPT !.Timestamp = 0]

\* What a load of the state file yields.
FileLSS == UnmarshalLSS(stateFile[1])

\* The event the observer keeps.
Seen == hist.v[1]

\* ------------------------------------------------------------------- C1
\* C1: on one validator with no Reset in between, every sign call that
\* writes the watermark writes a (height, round, step) strictly greater than
\* any watermark persisted before: the persisted sequence strictly increases.
C1_PersistedHRSIncreases ==
    [][(pc = "saveSigned" /\ pc' = "stamp" /\ hist.v # Nil /\ ~hist.broken)
         => HRSLess(HRSOf(Seen), HRSOf(UnmarshalLSS(stateFile'[1])))]_vars

C1_Witness ==
    /\ pc = "stamp"
    /\ hist.v # Nil
    /\ ~hist.broken
    /\ Seen # pv.LastSignState
    /\ FileLSS = pv.LastSignState

\* ------------------------------------------------------------------- C2
\* A SignVote has just returned with success for the (height, round, step)
\* of a vote that an earlier SignVote returned with success.
C2_TwoVotesSameHRS ==
    /\ pc = "returned"
    /\ call.op = "SignVote"
    /\ ret = "ok"
    /\ hist.v # Nil
    /\ Seen.op = "SignVote"
    /\ BytesHRS(Seen.signBytes) = BytesHRS(MsgSignBytes(msg))

C2_Agree ==
    /\ OnlyTimestampDiffers(Seen.signBytes, MsgSignBytes(msg))
    /\ Seen.sig = msg.Signature

\* C2 as claimed: any two successful SignVote calls for one (height, round,
\* step) return votes whose canonical forms differ at most in the timestamp,
\* with equal base signatures.
C2_Original == C2_TwoVotesSameHRS => C2_Agree

\* C2 as amended: the same, for two calls with no Reset and no load with an
\* empty state between them.
C2_SameHRSSameVote == (C2_TwoVotesSameHRS /\ ~hist.broken) => C2_Agree

C2_Witness ==
    /\ C2_TwoVotesSameHRS
    /\ ~hist.broken
    /\ call.arg.Timestamp # Seen.signBytes.Timestamp

\* ------------------------------------------------------------------- C3
\* The state file records sign bytes at the (height, round, step) of a
\* watermark recorded earlier.
C3_RecordedAgain ==
    /\ stateFile # Nil
    /\ hist.v # Nil
    /\ FileLSS.SignBytes # Nil
    /\ HRSOf(FileLSS) = HRSOf(Seen)

\* C3 as claimed: at most one distinct sign_bytes value is ever recorded in
\* the state file at one (height, round, step).
C3_Original == C3_RecordedAgain => FileLSS.SignBytes = Seen.SignBytes

\* C3 as amended: the same, as long as no Reset and no load with an empty
\* state has happened since the first recording.
C3_OneSignBytesPerHRS ==
    (C3_RecordedAgain /\ ~hist.broken) => FileLSS.SignBytes = Seen.SignBytes

C3_Witness ==
    /\ C3_RecordedAgain
    /\ ~hist.broken
    /\ pc = "returned"
    /\ call.op \in SignOps
    /\ ret = ErrConflictingData

\* ------------------------------------------------------------------- C4
\* C4: on the fresh path the new watermark is in the state file before the
\* signature is stamped into the message and before the call returns: a
\* message that carries the fresh signature, and a fresh-path call past
\* saveSigned, find the state file recording that signature.
C4_Recorded(sig) ==
    /\ stateFile # Nil
    /\ FileLSS.Signature = sig
    /\ FileLSS.SignBytes = local.signBytes
    /\ HRSOf(FileLSS) = <<local.height, local.round, local.step>>

C4_PersistedBeforeVisible ==
    /\ (FreshPath /\ msg.Signature # Nil)
          => (C4_Recorded(msg.Signature) /\ msg.Signature = local.sig)
    /\ (FreshPath /\ pc \in {"stamp", "returned"}) => C4_Recorded(local.sig)

C4_Witness ==
    /\ pc = "returned"
    /\ FreshPath
    /\ msg.Signature = local.sig
    /\ msg.Signature # Nil

\* ------------------------------------------------------------------- C5
\* The step of a new process that loads the state file.
C5_Loads ==
    /\ pc = "dead"
    /\ pc' = "returned"
    /\ call'.loadState
    /\ hist.v # Nil

C5_LoadedCoversSeen ==
    ~HRSLess(HRSOf(pv'.LastSignState), BytesHRS(Seen.signBytes))

\* C5 as claimed: after a crash inside a sign operation, the loaded (height,
\* round, step) is at least that of every base signature an earlier sign
\* call returned.
C5_Original ==
    [][(C5_Loads /\ call.at \in {"saveSigned", "stamp"})
         => C5_LoadedCoversSeen]_vars

\* C5 as amended: the same after any crash or panic, for the signatures
\* returned since the last Reset or load with an empty state.
C5_LoadedCoversReturned ==
    [][(C5_Loads /\ ~hist.broken) => C5_LoadedCoversSeen]_vars

C5_Witness ==
    /\ pc = "returned"
    /\ call.op = "LoadFilePV"
    /\ call.loadState
    /\ hist.v # Nil
    /\ ~hist.broken
    /\ HRSLess(BytesHRS(Seen.signBytes), HRSOf(pv.LastSignState))
    /\ pv.LastSignState = FileLSS

\* ------------------------------------------------------------------- C6
\* The validator has been reloaded from its files after a crash that
\* interrupted a fresh-path sign call once the signature was persisted, and
\* the caller repeats the interrupted request, with any timestamp.
C6_RetryAfterReload ==
    /\ pc = "idle"
    /\ hist.v # Nil
    /\ Seen.loadState
    /\ Seen.interrupted.op \in SignOps
    /\ call'.op = Seen.interrupted.op
    /\ call'.signExtension = Seen.interrupted.signExtension
    /\ [call'.arg EXCEPT !.Timestamp = 0]
          = [Seen.interrupted.arg EXCEPT !.Timestamp = 0]

\* C6: after a crash that follows the persisting of a fresh signature for an
\* HRS, and a reload, the same request (byte-identical or with another
\* timestamp) succeeds and returns the persisted signature with the persisted
\* timestamp, that is the message signed before the crash; nothing is written.
C6_ReloadedReplay ==
    [][C6_RetryAfterReload
         => /\ pc' = "returned"
            /\ ret' = "ok"
            /\ local' = NoLocal
            /\ FileLSS.SignBytes = Some(MsgSignBytes(Seen.interrupted.arg))
            /\ msg'.Signature = FileLSS.Signature
            /\ msg'.Signature # Nil
            /\ msg'.Timestamp = Seen.interrupted.arg.Timestamp
            /\ Some(MsgSignBytes(msg')) = FileLSS.SignBytes
            /\ UNCHANGED stateFile]_vars

C6_Witness ==
    /\ pc = "returned"
    /\ ret = "ok"
    /\ hist.v # Nil
    /\ hist.kind = "reloaded"
    /\ Seen.loadState
    /\ Seen.after = "stamp"
    /\ Seen.interrupted.op = "SignVote"
    /\ call.op = "SignVote"
    /\ [call.arg EXCEPT !.Timestamp = 0]
          = [Seen.interrupted.arg EXCEPT !.Timestamp = 0]
    /\ call.arg.Timestamp # Seen.interrupted.arg.Timestamp
    /\ msg.Timestamp = Seen.interrupted.arg.Timestamp
    /\ msg.Signature = FileLSS.Signature

\* ------------------------------------------------------------- C7 .. C9
\* A sign call starts at the (height, round, step) of the watermark, which
\* holds sign bytes.
SameHRSCall ==
    /\ pc = "idle"
    /\ call'.op \in SignOps
    /\ pv.LastSignState.SignBytes # Nil
    /\ HRSOf(pv.LastSignState) = BytesHRS(MsgSignBytes(call'.arg))

StoredBytes == pv.LastSignState.SignBytes[1]

\* The vote is not a non-nil precommit.
NoExtensionAllowed(c) ==
    ~(c.arg.Type = PrecommitType /\ c.arg.BlockID # "nil")

\* SignVote is asked to sign the extensions of a vote that must not carry
\* any, and that does carry one.
ExtensionRejected(c) ==
    /\ c.op = "SignVote"
    /\ c.signExtension
    /\ NoExtensionAllowed(c)
    /\ (c.arg.Extension # "" \/ c.arg.NonRpExtension # "")

\* The call returns the stored signature: no fresh signature, no write.
ReusedStored ==
    /\ pc' = "returned"
    /\ ret' = "ok"
    /\ msg'.Signature = pv.LastSignState.Signature
    /\ msg'.Signature # Nil
    /\ local' = NoLocal
    /\ UNCHANGED <<pv, stateFile>>

C7_ExactReplay ==
    SameHRSCall /\ MsgSignBytes(call'.arg) = StoredBytes

\* C7 as claimed: a request at the watermark's HRS whose canonical bytes equal
\* the stored sign bytes succeeds with the stored signature, signs nothing
\* new, writes nothing and leaves the watermark unchanged.
C7_Original ==
    [][C7_ExactReplay
         => (ReusedStored /\ MsgSignBytes(msg') = StoredBytes)]_vars

\* C7 as amended: the same, unless SignVote was asked to sign extensions of
\* a prevote or nil precommit that carries extension data; that request is
\* refused with UnexpectedExtension before the stored bytes are compared.
C7_ExactReplayIdempotent ==
    [][C7_ExactReplay
         => IF ExtensionRejected(call')
            THEN /\ pc' = "returned"
                 /\ ret' = ErrUnexpectedExtension
                 /\ msg' = call'.arg
                 /\ UNCHANGED <<pv, stateFile, local>>
            ELSE ReusedStored /\ MsgSignBytes(msg') = StoredBytes]_vars

C7_Witness ==
    /\ pc = "returned"
    /\ call.op \in SignOps
    /\ ret = "ok"
    /\ local = NoLocal
    /\ Some(MsgSignBytes(call.arg)) = pv.LastSignState.SignBytes
    /\ msg.Signature = pv.LastSignState.Signature
    /\ FileLSS = pv.LastSignState

C8_TimestampReplay ==
    /\ SameHRSCall
    /\ MsgSignBytes(call'.arg) # StoredBytes
    /\ OnlyTimestampDiffers(MsgSignBytes(call'.arg), StoredBytes)

C8_TimestampRewritten ==
    /\ ReusedStored
    /\ msg'.Timestamp = StoredBytes.Timestamp
    /\ MsgSignBytes(msg') = StoredBytes

\* C8 as claimed: a request at the watermark's HRS that differs from the
\* stored message in the timestamp only succeeds with the stored timestamp
\* and the stored signature, and writes nothing.
C8_Original == [][C8_TimestampReplay => C8_TimestampRewritten]_vars

\* C8 as amended: the same, unless SignVote was asked to sign extensions of
\* a prevote or nil precommit that carries extension data; that request is
\* refused with UnexpectedExtension and its timestamp is left alone.
C8_TimestampReplayReuses ==
    [][C8_TimestampReplay
         => IF ExtensionRejected(call')
            THEN /\ pc' = "returned"
                 /\ ret' = ErrUnexpectedExtension
                 /\ msg' = call'.arg
                 /\ UNCHANGED <<pv, stateFile, local>>
            ELSE C8_TimestampRewritten]_vars

C8_Witness ==
    /\ pc = "returned"
    /\ call.op \in SignOps
    /\ ret = "ok"
    /\ local = NoLocal
    /\ call.arg.Timestamp # msg.Timestamp
    /\ Some(MsgSignBytes(msg)) = pv.LastSignState.SignBytes
    /\ msg.Signature = pv.LastSignState.Signature
    /\ FileLSS = pv.LastSignState

C9_Conflict ==
    /\ SameHRSCall
    /\ ~OnlyTimestampDiffers(MsgSignBytes(call'.arg), StoredBytes)

\* The message leaves the call with no extension signature made in it: it
\* has the ones it came with, or none.
C9_NoExtensionSignature ==
    call'.op = "SignVote"
        => /\ msg'.ExtensionSignature \in {call'.arg.ExtensionSignature, Nil}
           /\ msg'.NonRpExtensionSignature
                 \in {call'.arg.NonRpExtensionSignature, Nil}

\* The call fails, makes and reuses no base signature, writes nothing.
C9_Refused ==
    /\ pc' = "returned"
    /\ msg'.Signature = Nil
    /\ local' = NoLocal
    /\ UNCHANGED <<pv, stateFile>>

\* C9 as claimed: a request at the watermark's HRS that differs from the
\* stored message in more than the timestamp fails with ConflictingData, the
\* message gets no signature, base or extension, and the watermark is
\* unchanged.
C9_Original ==
    [][C9_Conflict
         => /\ C9_Refused
            /\ ret' = ErrConflictingData
            /\ C9_NoExtensionSignature]_vars

\* C9 as amended: such a request fails, gets no base signature and leaves the
\* watermark unchanged. The error is ConflictingData, except that SignVote
\* asked to sign the extensions of a prevote or nil precommit that carries
\* extension data fails with UnexpectedExtension; and SignVote asked to sign
\* the extensions of a non-nil precommit has made both extension signatures
\* and stamped them into the vote by the time it fails.
C9_ConflictRefused ==
    [][C9_Conflict
         => /\ C9_Refused
            /\ ret' = IF ExtensionRejected(call') THEN ErrUnexpectedExtension
                      ELSE ErrConflictingData
            /\ IF call'.op = "SignVote" /\ call'.signExtension
                  /\ ~NoExtensionAllowed(call')
               THEN /\ msg'.ExtensionSignature \notin {OldSignature, Nil}
                    /\ msg'.NonRpExtensionSignature \notin {OldSignature, Nil}
               ELSE C9_NoExtensionSignature]_vars

C9_Witness ==
    /\ pc = "returned"
    /\ call.op \in SignOps
    /\ ret = ErrConflictingData
    /\ msg.Signature = Nil
    /\ HRSOf(pv.LastSignState) = BytesHRS(MsgSignBytes(call.arg))
    /\ ~OnlyTimestampDiffers(MsgSignBytes(call.arg), pv.LastSignState.SignBytes[1])
    /\ FileLSS = pv.LastSignState

\* ------------------------------------------------------------------ C10
C10_Returned == pc = "returned" /\ call.op = "CheckHRS"

\* C10: CheckHRS agrees with the table for every stored watermark and every
\* request: HeightRegression when the stored height is greater;
\* RoundRegression when the heights are equal and the stored round is
\* greater; StepRegression when height and round are equal and the stored
\* step is greater; neither reuse nor error when the request is greater;
\* NoSignBytes when the HRS is equal and the sign bytes are absent; reuse
\* exactly when the HRS is equal and sign bytes and signature are present.
C10_CheckHRSTable ==
    C10_Returned =>
        LET st == pv.LastSignState
            req == <<call.height, call.round, call.step>>
            none == [sameHRS |-> FALSE, err |-> NoErr, panic |-> FALSE]
        IN  /\ st.Height > call.height
                  => msg = [none EXCEPT !.err = ErrHeightRegression]
            /\ (st.Height = call.height /\ st.Round > call.round)
                  => msg = [none EXCEPT !.err = ErrRoundRegression]
            /\ (st.Height = call.height /\ st.Round = call.round
                  /\ st.Step > call.step)
                  => msg = [none EXCEPT !.err = ErrStepRegression]
            /\ HRSLess(HRSOf(st), req) => msg = none
            /\ (HRSOf(st) = req /\ st.SignBytes = Nil)
                  => msg = [none EXCEPT !.err = ErrNoSignBytes]
            /\ msg.sameHRS <=> /\ HRSOf(st) = req
                               /\ st.SignBytes # Nil
                               /\ st.Signature # Nil
            /\ msg.sameHRS => (msg.err = NoErr /\ ~msg.panic)

C10_Witness ==
    /\ C10_Returned
    /\ msg.sameHRS
    /\ pv.LastSignState.Height > 0

\* ------------------------------------------------------------------ C11
C11_RecoverableErrors ==
    {ErrHeightRegression, ErrRoundRegression, ErrStepRegression,
     ErrNoSignBytes, ErrConflictingData, ErrUnexpectedExtension}

\* C11: whenever SignVote or SignProposal returns a recoverable error
\* (a regression, NoSignBytes, ConflictingData, UnexpectedExtension), the
\* watermark is unchanged in memory and in the state file: the five fields
\* keep their values and nothing is written.
C11_ErrorLeavesWatermark ==
    [][(pc = "idle" /\ pc' = "returned" /\ call'.op \in SignOps
          /\ ret' \in C11_RecoverableErrors)
         => /\ pv'.LastSignState = pv.LastSignState
            /\ UNCHANGED <<pv, stateFile, keyFile>>
            /\ local' = NoLocal]_vars

C11_Witness ==
    /\ pc = "returned"
    /\ call.op \in SignOps
    /\ ret = ErrNoSignBytes
    /\ pv.LastSignState = FileLSS
    /\ pv.LastSignState.Height > 0

\* ------------------------------------------------------------------ C12
\* C12: whenever SignVote or SignProposal returns success (fresh path, exact
\* replay or timestamp-only replay), the base signature of the returned
\* message is the validator key's signature over the canonical sign bytes of
\* the message as returned, and verifies under the validator's public key.
C12_ReturnedSignatureVerifies ==
    (pc = "returned" /\ call.op \in SignOps /\ ret = "ok")
        => /\ msg.Signature = Sign(pv.Key.PrivKey, MsgSignBytes(msg))
           /\ VerifySignature(pv.Key.PubKey, MsgSignBytes(msg), msg.Signature)

C12_Witness ==
    /\ pc = "returned"
    /\ call.op \in SignOps
    /\ ret = "ok"
    /\ ~FreshPath
    /\ MsgSignBytes(msg) # MsgSignBytes(call.arg)
    /\ VerifySignature(pv.Key.PubKey, MsgSignBytes(msg), msg.Signature)

\* ------------------------------------------------------------------ C13
\* A sign call starts with a (height, round, step) greater than the
\* watermark's.
C13_GreaterHRS ==
    /\ pc = "idle"
    /\ call'.op \in SignOps
    /\ HRSLess(HRSOf(pv.LastSignState), BytesHRS(MsgSignBytes(call'.arg)))

\* The call signs the request's canonical bytes and goes on to saveSigned.
C13_Signs ==
    /\ pc' = "saveSigned"
    /\ local' = [height |-> call'.arg.Height, round |-> call'.arg.Round,
                 step |-> StepOfType(call'.arg.Type),
                 signBytes |-> Some(MsgSignBytes(call'.arg)),
                 sig |-> Sign(pv.Key.PrivKey, MsgSignBytes(call'.arg))]

\* A fresh-path call has returned: the watermark in memory and in the state
\* file is the request's HRS, sign bytes and signature, and the message
\* carries the signature.
C13_FreshReturned ==
    (pc = "returned" /\ FreshPath)
        => /\ ret = "ok"
           /\ pv.LastSignState =
                 [Height |-> local.height, Round |-> local.round,
                  Step |-> local.step, Signature |-> local.sig,
                  SignBytes |-> local.signBytes]
           /\ stateFile # Nil
           /\ FileLSS = pv.LastSignState
           /\ msg.Signature = local.sig
           /\ local.sig # Nil
           /\ local.signBytes = Some(MsgSignBytes(call.arg))
           /\ <<local.height, local.round, local.step>>
                 = BytesHRS(MsgSignBytes(call.arg))

\* C13 as claimed: a request whose HRS is greater than the watermark's is
\* signed, and on return the watermark is exactly the request's height, round
\* and step with the new sign bytes and signature, in memory and in the state
\* file, and the message carries that signature.
C13_Original ==
    [][(C13_GreaterHRS => C13_Signs) /\ C13_FreshReturned']_vars

\* C13 as amended: the same, unless SignVote was asked to sign extensions of
\* a prevote or nil precommit that carries extension data; that request
\* fails with UnexpectedExtension and nothing is signed or written.
C13_GreaterHRSSigned ==
    [][/\ C13_GreaterHRS
          => IF ExtensionRejected(call')
             THEN /\ pc' = "returned"
                  /\ ret' = ErrUnexpectedExtension
                  /\ UNCHANGED <<pv, stateFile, local>>
             ELSE C13_Signs
       /\ C13_FreshReturned']_vars

C13_Witness ==
    /\ pc = "returned"
    /\ FreshPath
    /\ ret = "ok"
    /\ FileLSS = pv.LastSignState
    /\ pv.LastSignState.SignBytes = Some(MsgSignBytes(msg))
    /\ msg.Signature = pv.LastSignState.Signature
    /\ pv.LastSignState.Round > 0

\* ------------------------------------------------------------------ C14
C14_HRSErrors ==
    {ErrHeightRegression, ErrRoundRegression, ErrStepRegression, ErrNoSignBytes}

\* SignVote was asked to sign the extensions of a non-nil precommit, and the
\* HRS check has let the request pass.
C14_ExtensionsSigned ==
    /\ pc \in {"saveSigned", "stamp", "returned"}
    /\ call.op = "SignVote"
    /\ call.signExtension
    /\ ~NoExtensionAllowed(call)
    /\ ret \notin C14_HRSErrors

\* C14: SignVote with sign_extension = true on a non-nil precommit that
\* passes the HRS check stamps into the vote a replay-protected and a
\* non-replay-protected extension signature, each made with the validator's
\* key over its own extension sign bytes, also when the payloads are empty.
C14_BothExtensionSignatures ==
    C14_ExtensionsSigned
        => LET esb == VoteExtensionSignBytes(ChainID, call.arg)
           IN  /\ msg.ExtensionSignature = Sign(pv.Key.PrivKey, esb.ext)
               /\ msg.NonRpExtensionSignature = Sign(pv.Key.PrivKey, esb.nonRp)
               /\ VerifySignature(pv.Key.PubKey, esb.ext, msg.ExtensionSignature)
               /\ VerifySignature(pv.Key.PubKey, esb.nonRp,
                                  msg.NonRpExtensionSignature)
               /\ msg.ExtensionSignature # msg.NonRpExtensionSignature
               /\ msg.Extension = call.arg.Extension
               /\ msg.NonRpExtension = call.arg.NonRpExtension

C14_Witness ==
    /\ C14_ExtensionsSigned
    /\ pc = "returned"
    /\ ret = "ok"
    /\ call.arg.Extension = ""
    /\ call.arg.NonRpExtension = ""
    /\ msg.ExtensionSignature # Nil
    /\ msg.NonRpExtensionSignature # Nil

\* ------------------------------------------------------------------ C15
\* SignVote is asked to sign the extensions of a prevote or nil precommit.
C15_Call ==
    /\ pc = "idle"
    /\ call'.op = "SignVote"
    /\ call'.signExtension
    /\ NoExtensionAllowed(call')

C15_Payload(c) == c.arg.Extension # "" \/ c.arg.NonRpExtension # ""

\* The request is at or above the watermark, and at it only if the watermark
\* holds sign bytes: CheckHRS returns no error.
C15_PassesHRS ==
    LET req == BytesHRS(MsgSignBytes(call'.arg))
    IN  /\ ~HRSLess(req, HRSOf(pv.LastSignState))
        /\ req = HRSOf(pv.LastSignState) => pv.LastSignState.SignBytes # Nil

\* The call fails and leaves the vote and the watermark as they were.
C15_Untouched ==
    /\ pc' = "returned"
    /\ msg' = call'.arg
    /\ UNCHANGED <<pv, stateFile, local>>

\* Without a payload the call is not refused for its extensions, and the vote
\* leaves the HRS check with both extension signatures empty.
C15_Proceeds ==
    /\ ret' # ErrUnexpectedExtension
    /\ ret' \notin C14_HRSErrors
          => /\ msg'.ExtensionSignature = Nil
             /\ msg'.NonRpExtensionSignature = Nil

\* The vote of such a call keeps its empty extension signatures to the return.
C15_ReturnedEmpty ==
    (/\ pc = "returned"
     /\ call.op = "SignVote"
     /\ call.signExtension
     /\ NoExtensionAllowed(call)
     /\ ret = "ok")
        => /\ msg.ExtensionSignature = Nil
           /\ msg.NonRpExtensionSignature = Nil

\* C15 as claimed: SignVote with sign_extension = true on a prevote or nil
\* precommit fails with UnexpectedExtension when either payload is non-empty,
\* leaving the vote and the watermark unmodified; with both payloads empty
\* the call proceeds and the returned vote's extension signatures are empty.
C15_Original ==
    [][/\ C15_Call
          => IF C15_Payload(call')
             THEN C15_Untouched /\ ret' = ErrUnexpectedExtension
             ELSE C15_Proceeds
       /\ C15_ReturnedEmpty']_vars

\* C15 as amended: the same for a request that passes the HRS check; one
\* that does not fails with the error of the HRS check, vote and watermark
\* unmodified.
C15_UnexpectedExtension ==
    [][/\ C15_Call
          => IF C15_Payload(call')
             THEN /\ C15_Untouched
                  /\ ret' \in C14_HRSErrors \cup {ErrUnexpectedExtension}
                  /\ ret' = ErrUnexpectedExtension <=> C15_PassesHRS
             ELSE C15_Proceeds
       /\ C15_ReturnedEmpty']_vars

C15_Witness ==
    /\ pc = "returned"
    /\ call.op = "SignVote"
    /\ call.signExtension
    /\ NoExtensionAllowed(call)
    /\ call.arg.Extension = ""
    /\ call.arg.NonRpExtension # ""
    /\ ret = ErrUnexpectedExtension
    /\ msg = call.arg
    /\ msg.ExtensionSignature = OldSignature
    /\ pv.LastSignState.SignBytes # Nil

\* ------------------------------------------------------------------ C16
\* SignVote has returned a non-nil precommit with its extensions signed.
C16_Returned ==
    /\ pc = "returned"
    /\ call.op = "SignVote"
    /\ call.signExtension
    /\ ~NoExtensionAllowed(call)
    /\ ret = "ok"

\* The call repeated, with other extension data, a call that a crash
\* interrupted after its signature was persisted.
C16_OtherExtension ==
    /\ hist.v # Nil
    /\ Seen.interrupted.op = "SignVote"
    /\ Seen.interrupted.arg.Extension # call.arg.Extension

\* C16: extension signatures are never taken from the watermark: on every
\* SignVote with sign_extension = true for a non-nil precommit, the replay
\* paths included, the returned vote's extension signatures are made in that
\* call over the request's own extension data; only the base signature is
\* the stored one.
C16_ExtensionsResigned ==
    C16_Returned
        => LET esb == VoteExtensionSignBytes(ChainID, call.arg)
               was == VoteExtensionSignBytes(ChainID, Seen.interrupted.arg)
           IN  /\ msg.ExtensionSignature = Sign(pv.Key.PrivKey, esb.ext)
               /\ msg.NonRpExtensionSignature = Sign(pv.Key.PrivKey, esb.nonRp)
               /\ msg.ExtensionSignature # pv.LastSignState.Signature
               /\ msg.NonRpExtensionSignature # pv.LastSignState.Signature
               /\ DOMAIN MarshalLSS(pv.LastSignState)
                     = {"height", "round", "step", "signature", "signbytes"}
               /\ ~FreshPath
                     => /\ msg.Signature = pv.LastSignState.Signature
                        /\ pv.LastSignState = FileLSS
               /\ C16_OtherExtension
                     => msg.ExtensionSignature # Sign(pv.Key.PrivKey, was.ext)

C16_Witness ==
    /\ C16_Returned
    /\ ~FreshPath
    /\ C16_OtherExtension
    /\ Seen.interrupted.signExtension
    /\ call.arg.Timestamp # Seen.interrupted.arg.Timestamp
    /\ msg.Timestamp = Seen.interrupted.arg.Timestamp
    /\ msg.Signature = FileLSS.Signature
    /\ msg.ExtensionSignature
          = Sign(pv.Key.PrivKey, VoteExtensionSignBytes(ChainID, call.arg).ext)

\* ------------------------------------------------------------------ C17
\* A SignVote call without sign_extension is in progress or has returned.
C17_Call ==
    /\ pc \in {"saveSigned", "stamp", "returned"}
    /\ call.op = "SignVote"
    /\ ~call.signExtension

\* C17: SignVote with sign_extension = false does not modify the vote's
\* extension payloads or extension signatures on any path (fresh, replay,
\* error): they have after the call the values they had before it, and the
\* call is never refused for them.
C17_ExtensionsUntouched ==
    C17_Call
        => /\ msg.Extension = call.arg.Extension
           /\ msg.NonRpExtension = call.arg.NonRpExtension
           /\ msg.ExtensionSignature = call.arg.ExtensionSignature
           /\ msg.NonRpExtensionSignature = call.arg.NonRpExtensionSignature
           /\ ret # ErrUnexpectedExtension

C17_Witness ==
    /\ C17_Call
    /\ pc = "returned"
    /\ ret = "ok"
    /\ ~FreshPath
    /\ call.arg.Type = PrecommitType
    /\ call.arg.BlockID # "nil"
    /\ call.arg.Extension = "x"
    /\ msg.ExtensionSignature = OldSignature
    /\ msg.NonRpExtensionSignature = OldSignature

\* ------------------------------------------------------------------ C18
\* C18: SignBytes(raw) returns the key's signature over raw in any watermark
\* state, with no HRS check and no change of the watermark in memory or on
\* disk: the validator is after the call, and after the caller has taken the
\* result, in the state it was in before, so that SignBytes calls among
\* SignVote / SignProposal calls change the outcome of none of them.
C18_SignBytesIsPure ==
    [][/\ (pc = "idle" /\ call'.op = "SignBytes")
          => /\ pc' = "returned"
             /\ ret' = "ok"
             /\ msg'.Signature = Sign(pv.Key.PrivKey, call'.arg)
             /\ VerifySignature(pv.Key.PubKey, call'.arg, msg'.Signature)
             /\ UNCHANGED <<pv, keyFile, stateFile, local>>
       /\ (pc = "returned" /\ call.op = "SignBytes" /\ pc' = "idle")
          => UNCHANGED <<pv, keyFile, stateFile, local>>]_vars

C18_Witness ==
    /\ pc = "returned"
    /\ call.op = "SignBytes"
    /\ ret = "ok"
    /\ msg.Signature = Sign(pv.Key.PrivKey, call.arg)
    /\ pv.LastSignState.SignBytes # Nil
    /\ pv.LastSignState = FileLSS
    /\ pv.LastSignState.Step = stepPrecommit

\* ------------------------------------------------------------------ C19
\* C19: Reset returns the validator to the initial state from any state:
\* afterwards height = 0, round = 0, step = none and sign bytes and signature
\* are absent, in memory and in the state file, and the validator is the one
\* NewFilePV constructs for its key, so that it accepts requests as a newly
\* constructed one does.
C19_ResetToInitial ==
    [][(pc = "idle" /\ pc' = "returned" /\ call'.op = "Reset")
         => /\ pv'.LastSignState
                 = [Height |-> 0, Round |-> 0, Step |-> stepNone,
                    Signature |-> Nil, SignBytes |-> Nil]
            /\ stateFile' # Nil
            /\ UnmarshalLSS(stateFile'[1]) = pv'.LastSignState
            /\ pv'.Key = pv.Key
            /\ pv' = NewFilePV(pv.Key.PrivKey)
            /\ \A v \in Votes :
                  /\ signVote(pv', ChainID, v, FALSE)
                        = signVote(NewFilePV(pv.Key.PrivKey), ChainID, v, FALSE)
                  /\ signVote(pv', ChainID, v, FALSE).path = "fresh"
            /\ \A p \in Proposals :
                  signProposal(pv', ChainID, p).path = "fresh"]_vars

C19_Witness ==
    /\ pc = "returned"
    /\ call.op = "Reset"
    /\ ret = "ok"
    /\ hist.v # Nil
    /\ hist.broken
    /\ Seen.Height = MaxHeight
    /\ pv.LastSignState = EmptyLSS
    /\ FileLSS = EmptyLSS

\* ------------------------------------------------------------------ C20
GenFilePVReturns ==
    pc = "dead" /\ pc' = "returned" /\ call'.op = "GenFilePV"

C20_Generated ==
    /\ pv'.Key.PrivKey \in PrivKeys
    /\ pv'.Key.PubKey = PubKeyOf(pv'.Key.PrivKey)
    /\ pv'.Key.Address = AddressOf(pv'.Key.PubKey)
    /\ pv'.LastSignState
          = [Height |-> 0, Round |-> 0, Step |-> stepNone,
             Signature |-> Nil, SignBytes |-> Nil]

C20_Persisted ==
    /\ keyFile' = Some(MarshalKey(pv'.Key))
    /\ stateFile' = Some(MarshalLSS(pv'.LastSignState))

\* C20 as stated: GenFilePV produces a validator with a fresh key and the
\* empty state, and when it returns successfully both the key file and the
\* state file have been persisted.
C20_Original ==
    [][GenFilePVReturns => (C20_Generated /\ C20_Persisted)]_vars

\* C20: GenFilePV produces a validator with the key keyGen returned and the
\* empty state (step none) and writes no file: the key file and the state
\* file are as they were. They are persisted by Save, which LoadOrGenFilePV
\* calls after generating when no key file exists: when that returns, both
\* files hold the generated validator.
C20_GenFilePVWritesNothing ==
    [][/\ GenFilePVReturns
          => (C20_Generated /\ UNCHANGED <<keyFile, stateFile>>)
       /\ (pc = "dead" /\ pc' = "returned" /\ call'.op = "LoadOrGenFilePV"
              /\ keyFile = Nil)
          => (C20_Generated /\ C20_Persisted)
       /\ (pc = "idle" /\ pc' = "returned" /\ call'.op = "Save")
          => (pv' = pv /\ C20_Persisted)]_vars

C20_Witness ==
    /\ pc = "returned"
    /\ call.op = "GenFilePV"
    /\ ret = "ok"
    /\ pv.Key.PrivKey \in PrivKeys
    /\ pv.LastSignState = EmptyLSS
    /\ keyFile = Nil
    /\ stateFile = Nil

\* ------------------------------------------------------------------ C21
\* No process runs, the key file exists and the state file does not.
C21_StateFileAbsent == pc = "dead" /\ keyFile # Nil /\ stateFile = Nil

\* What a load gives when the state file holds the empty state.
C21_AsIfEmpty ==
    /\ pc' = "returned"
    /\ call'.op = "LoadFilePV"
    /\ pv' = loadFilePV(keyFile[1], MarshalLSS(EmptyLSS), TRUE)
    /\ pv'.LastSignState
          = [Height |-> 0, Round |-> 0, Step |-> 0,
             Signature |-> Nil, SignBytes |-> Nil]
    /\ UNCHANGED <<keyFile, stateFile>>

\* C21 as stated: a load with the key file present and the state file absent
\* yields a validator with the empty watermark, as if the state file held the
\* empty state.
C21_Original ==
    [][(C21_StateFileAbsent /\ <<pc, ret>>' # <<pc, ret>>) => C21_AsIfEmpty]_vars

\* C21: with the key file present and the state file absent,
\* LoadFilePVEmptyState yields a validator with the empty watermark (height
\* 0, round 0, step 0, no sign bytes, no signature), as if the state file
\* held the empty state; LoadFilePV exits the process and yields no
\* validator, and neither writes a file.
C21_AbsentStateFile ==
    [][(C21_StateFileAbsent /\ <<pc, ret>>' # <<pc, ret>>)
         => \/ C21_AsIfEmpty /\ ~call'.loadState
            \/ /\ ret' = "exit"
               /\ pc' = "dead"
               /\ pv' = NoPV
               /\ UNCHANGED <<keyFile, stateFile>>]_vars

C21_Witness ==
    /\ pc = "dead"
    /\ ret = "exit"
    /\ keyFile # Nil
    /\ stateFile = Nil

\* ------------------------------------------------------------------ C22
\* C22: after every load, the validator's public key is the one derived from
\* the loaded private key and its address the one derived from that public
\* key, whatever pub_key and address the key file held; a mismatch in the
\* file is overridden without error, and the file is left as it was.
C22_KeyRederived ==
    [][(pc = "dead" /\ pc' = "returned" /\ call'.op = "LoadFilePV")
         => /\ ret' = "ok"
            /\ pv'.Key.PrivKey = keyFile[1].priv_key
            /\ pv'.Key.PubKey = PubKeyOf(pv'.Key.PrivKey)
            /\ pv'.Key.Address = AddressOf(pv'.Key.PubKey)
            /\ UNCHANGED keyFile]_vars

C22_Witness ==
    /\ pc = "returned"
    /\ call.op = "LoadFilePV"
    /\ ret = "ok"
    /\ keyFile[1].pub_key # PubKeyOf(keyFile[1].priv_key)
    /\ keyFile[1].address # AddressOf(PubKeyOf(keyFile[1].priv_key))
    /\ pv.Key.PubKey = PubKeyOf(keyFile[1].priv_key)
    /\ pv.Key.Address = AddressOf(pv.Key.PubKey)

\* ------------------------------------------------------------------ C23
\* C23: for any watermark reachable through the API, saving the validator
\* and then loading it from the same files yields a LastSignState whose
\* height, round, step, sign bytes and signature equal those that were saved.
C23_SaveLoadRoundTrip ==
    [][(pc = "idle" /\ pc' = "returned" /\ call'.op = "Save")
         => /\ keyFile' # Nil
            /\ stateFile' # Nil
            /\ LET loaded == loadFilePV(keyFile'[1], stateFile'[1], TRUE)
               IN  /\ loaded.LastSignState.Height = pv.LastSignState.Height
                   /\ loaded.LastSignState.Round = pv.LastSignState.Round
                   /\ loaded.LastSignState.Step = pv.LastSignState.Step
                   /\ loaded.LastSignState.SignBytes = pv.LastSignState.SignBytes
                   /\ loaded.LastSignState.Signature = pv.LastSignState.Signature
                   /\ loaded = pv]_vars

C23_Witness ==
    /\ pc = "returned"
    /\ call.op = "Save"
    /\ ret = "ok"
    /\ pv.LastSignState.Height = MaxHeight
    /\ pv.LastSignState.Round = 1
    /\ pv.LastSignState.Step = stepPrevote
    /\ pv.LastSignState.SignBytes # Nil
    /\ pv.LastSignState.Signature # Nil
    /\ loadFilePV(keyFile[1], stateFile[1], TRUE) = pv

\* ------------------------------------------------------------------ C24
\* C24: the watermark is only ever written by a sign operation with step
\* propose, prevote or precommit: in every state reachable through the API,
\* a watermark that holds sign bytes, in memory or in the state file, has a
\* step different from none (0).
C24_SignBytesImplyStep ==
    /\ pv.LastSignState.SignBytes # Nil
          => /\ pv.LastSignState.Step # 0
             /\ pv.LastSignState.Step
                   \in {stepPropose, stepPrevote, stepPrecommit}
    /\ (stateFile # Nil /\ UnmarshalLSS(stateFile[1]).SignBytes # Nil)
          => /\ UnmarshalLSS(stateFile[1]).Step # 0
             /\ UnmarshalLSS(stateFile[1]).Step
                   \in {stepPropose, stepPrevote, stepPrecommit}

C24_Witness ==
    /\ pc = "saveSigned"
    /\ call.op = "SignVote"
    /\ call.arg.Type = PrevoteType
    /\ pv.LastSignState.SignBytes # Nil
    /\ pv.LastSignState.Step = stepPropose
    /\ stateFile # Nil
    /\ UnmarshalLSS(stateFile[1]) = pv.LastSignState

\* ------------------------------------------------------------------ C25
\* C25: in every state reachable from a newly constructed validator through
\* SignVote, SignProposal, SignBytes, Save and Reset, the watermark's sign
\* bytes are present if and only if its signature is present, in memory and
\* in the state file.
C25_SignBytesIffSignature ==
    /\ (pv.LastSignState.SignBytes # Nil) <=> (pv.LastSignState.Signature # Nil)
    /\ stateFile # Nil
          => ("signbytes" \in DOMAIN stateFile[1]
                 <=> "signature" \in DOMAIN stateFile[1])

C25_Witness ==
    /\ pc = "returned"
    /\ call.op = "SignProposal"
    /\ ret = "ok"
    /\ pv.LastSignState.SignBytes # Nil
    /\ pv.LastSignState.Signature # Nil
    /\ "signbytes" \in DOMAIN stateFile[1]
    /\ "signature" \in DOMAIN stateFile[1]

\* ------------------------------------------------------------------ C26
\* C26: if the state-file write fails during saveSigned, the sign operation
\* panics and never returns: the call goes on to stamp the fresh signature
\* only when the state file holds the new watermark; on the panic the base
\* signature has not been stamped into the message, the state file is as it
\* was, the process is gone and nothing is returned from it until a load.
C26_WriteFailureAborts ==
    [][/\ pc = "saveSigned"
          => /\ ret = "pending"
             /\ msg.Signature = Nil
             /\ local.sig # Nil
             /\ pc' \in {"saveSigned", "stamp", "dead"}
             /\ pc' = "stamp"
                   => /\ stateFile' # Nil
                      /\ UnmarshalLSS(stateFile'[1])
                            = saveSignedState(local.height, local.round,
                                              local.step, local.signBytes[1],
                                              local.sig)
                      /\ msg' = msg
             /\ ret' = "panic"
                   => /\ pc' = "dead"
                      /\ pv' = NoPV
                      /\ msg' = NoMsg
                      /\ UNCHANGED <<keyFile, stateFile>>
       /\ (pc = "dead" /\ pc' # "dead")
          => (pc' = "returned" /\ call'.op = "LoadFilePV" /\ msg' = NoMsg)]_vars

C26_Witness ==
    /\ pc = "dead"
    /\ ret = "panic"
    /\ call.at = "saveSigned"
    /\ msg = NoMsg
    /\ stateFile # Nil
    /\ UnmarshalLSS(stateFile[1]).Height = 1
    /\ UnmarshalLSS(stateFile[1]).SignBytes # Nil

\* ------------------------------------------------------------------ C27
\* The watermark holds sign bytes and no signature.
C27_Corrupt ==
    pv.LastSignState.SignBytes # Nil /\ pv.LastSignState.Signature = Nil

C27_SameHRS(m) ==
    <<m.Height, m.Round, StepOfType(m.Type)>> = HRSOf(pv.LastSignState)

\* C27: when the request HRS equals the watermark HRS and the watermark holds
\* sign bytes but no signature, CheckHRS, and so SignVote and SignProposal,
\* panics instead of returning a result or an error: no call with that HRS
\* returns or goes on to sign, and on the panic no message and no signature
\* is handed back, the process is gone and both files are as they were.
C27_CorruptStatePanics ==
    [][(pc = "idle" /\ C27_Corrupt)
         => /\ CheckHRS(pv.LastSignState, pv.LastSignState.Height,
                        pv.LastSignState.Round, pv.LastSignState.Step).panic
            /\ \A v \in Votes, signExtension \in BOOLEAN :
                  C27_SameHRS(v)
                     => signVote(pv, ChainID, v, signExtension).path = "panic"
            /\ \A p \in Proposals :
                  C27_SameHRS(p)
                     => signProposal(pv, ChainID, p).path = "panic"
            /\ call'.op \in SignOps => ~C27_SameHRS(call'.arg)
            /\ (call'.op = "Crash" /\ call'.at = "CheckHRS")
                  => /\ pc' = "dead"
                     /\ ret' = "panic"
                     /\ pv' = NoPV
                     /\ msg' = NoMsg
                     /\ local' = NoLocal
                     /\ UNCHANGED <<keyFile, stateFile>>]_vars

C27_Witness ==
    /\ pc = "dead"
    /\ ret = "panic"
    /\ call.at = "CheckHRS"
    /\ msg = NoMsg
    /\ stateFile # Nil
    /\ UnmarshalLSS(stateFile[1]).SignBytes # Nil
    /\ UnmarshalLSS(stateFile[1]).Signature = Nil

\* ------------------------------------------------------------------ C28
\* The state file holds a whole encoded watermark.
C28_Complete(file) ==
    /\ file # Nil
    /\ {"height", "round", "step"} \subseteq DOMAIN file[1]
    /\ ("signature" \in DOMAIN file[1]) <=> ("signbytes" \in DOMAIN file[1])
    /\ MarshalLSS(UnmarshalLSS(file[1])) = file[1]

C28_InWriter == pc \in {"write", "chmod", "fsync", "rename"}

\* C28: a state-file write is atomic with respect to crashes: from the start
\* of the write up to the rename the state file keeps its previous contents,
\* whatever happens (a kill, a failing step); the only step that changes it
\* is the rename, which puts the complete new contents in place; so a load
\* after a kill sees the complete previous contents or the complete new
\* contents, and never a partial watermark.
C28_WriteIsAtomic ==
    [][/\ (C28_InWriter /\ pc # "rename") => UNCHANGED stateFile
       /\ (C28_InWriter /\ stateFile' # stateFile)
             => /\ pc = "rename"
                /\ pc' = "returned"
                /\ stateFile' = Some(local.data)
                /\ local.data = MarshalLSS(pv.LastSignState)
       /\ C28_Complete(stateFile) => C28_Complete(stateFile')
       /\ (pc = "dead" /\ pc' = "returned" /\ call'.op = "LoadFilePV"
             /\ call'.loadState)
             => /\ C28_Complete(stateFile)
                /\ MarshalLSS(pv'.LastSignState) = stateFile[1]
                /\ UNCHANGED stateFile]_vars

C28_Witness ==
    /\ pc = "dead"
    /\ ret = "crash"
    /\ call.at = "rename"
    /\ "signbytes" \in DOMAIN call.writing
    /\ call.writing.height = MaxHeight
    /\ C28_Complete(stateFile)
    /\ stateFile[1] # call.writing
    /\ "signbytes" \in DOMAIN stateFile[1]

\* ------------------------------------------------------------------ C29
\* A step of the running process (not a load).
C29_Running == pc # "dead"

\* C29 as stated: no SignVote, SignProposal, SignBytes, Save or Reset changes
\* the private key, public key or address in memory or the contents of the
\* key file.
C29_Original ==
    [][C29_Running
         => /\ pc' # "dead" => pv'.Key = pv.Key
            /\ keyFile # Nil => keyFile' = keyFile]_vars

\* C29: no SignVote, SignProposal, SignBytes, Save or Reset changes the
\* private key, public key or address in memory. SignVote, SignProposal and
\* SignBytes never write the key file; Save and Reset write the encoding of
\* the in-memory key to it, so that its contents change only when the file
\* was absent or held a public key or address other than the derived ones.
C29_KeyImmutable ==
    [][C29_Running
         => /\ pc' # "dead"
                  => /\ pv'.Key.PrivKey = pv.Key.PrivKey
                     /\ pv'.Key.PubKey = pv.Key.PubKey
                     /\ pv'.Key.Address = pv.Key.Address
            /\ keyFile' # keyFile
                  => /\ \/ call'.op \in {"Save", "Reset"}
                        \/ call'.op = "Crash" /\ call'.at = "panic"
                     /\ keyFile' = Some(MarshalKey(pv.Key))
            /\ keyFile = Some(MarshalKey(pv.Key)) => keyFile' = keyFile]_vars

C29_Witness ==
    /\ pc = "returned"
    /\ call.op = "Save"
    /\ ret = "ok"
    /\ keyFile = Some(MarshalKey(pv.Key))
    /\ pv.Key = NewFilePV(pv.Key.PrivKey).Key
    /\ pv.LastSignState.SignBytes # Nil
    /\ pv.LastSignState.Height = MaxHeight

\* ------------------------------------------------------------------ C30
\* An operation of the retrying client has returned.
C30_Returned == pc = "returned" /\ call.op \in RetryOps

\* C30 as stated, for retries = n > 0: after n failed attempts the operation
\* returns the exhausted error wrapping the last error.
C30_Original ==
    (C30_Returned /\ call.retries > 0 /\ local.calls = call.retries
        /\ local.last # NilErr)
       => ret = Exhausted(call.op, local.last)

\* C30: with retries = n > 0 an operation calls the wrapped client at most n
\* times, returns at the first success, returns a remote-signer error at once
\* and as it is, and after n attempts that failed with other errors returns
\* the exhausted error wrapping the last error; with retries = 0 it goes on
\* retrying and returns only on a success or a remote-signer error, never
\* with the exhausted error.
C30_RetryLoop ==
    (call.op \in RetryOps /\ call.retries >= 0)
       => /\ call.retries > 0 => local.calls <= call.retries
          /\ pc = "loop" => local.calls = local.i
          /\ pc = "sleep" => (local.calls = local.i + 1
                                /\ local.last \in OtherErrors
                                /\ local.err = local.last)
          /\ pc = "returned"
                => \/ /\ ret = NilErr
                      /\ local.last = NilErr
                      /\ local.calls = local.i + 1
                   \/ /\ ret \in RemoteSignerErrors
                      /\ local.last = ret
                      /\ local.calls = local.i + 1
                   \/ /\ ret = Exhausted(call.op, local.err)
                      /\ call.retries > 0
                      /\ local.calls = call.retries
                      /\ local.i = call.retries
                      /\ local.err \in OtherErrors
                      /\ local.last = local.err
          /\ (pc = "returned" /\ call.retries > 0
                 /\ local.calls = call.retries /\ local.last \in OtherErrors)
                => ret = Exhausted(call.op, local.last)
          /\ (pc = "returned" /\ call.retries = 0)
                => ret \in {NilErr} \cup RemoteSignerErrors

C30_Witness ==
    /\ C30_Returned
    /\ call.op = "RetrySignerClient.SignVote"
    /\ call.retries = 3
    /\ local.calls = 3
    /\ ret = Exhausted(call.op, [kind |-> "error", text |-> "closed"])

\* ------------------------------------------------------------------ C31
\* Goroutine g waits for a mutex that is held.
C31_WaitsFor(g) ==
    IF goroutines[g].pc = "lockBA" THEN bitArrays[goroutines[g].bA].mtx
    ELSE IF goroutines[g].pc = "lockO" THEN bitArrays[goroutines[g].o].mtx
    ELSE 0

\* C31: BitArray is thread-safe: when goroutines concurrently run operations
\* on shared bit arrays, Or, And, Sub and Update with the operands in either
\* order or with the same array as both operands included, every operation
\* completes and no deadlock is reachable: there is never a set of goroutines
\* each waiting for a mutex held by a goroutine of the set.
C31_NoDeadlock ==
    ~ \E waiting \in SUBSET Goroutines :
          /\ waiting # {}
          /\ \A g \in waiting : C31_WaitsFor(g) \in waiting

\* ------------------------------------------------------------------ C40
\* The number of bits set to true among the first Bits bits of bA.
C40_TrueBits(bA) == Cardinality({i \in 0..(bA.Bits - 1) : getIndex(bA, i)})

\* C40: for every BitArray produced or modified by any sequence of
\* NewBitArray, SetIndex, Copy, Or, And, Sub, Not and Update, TrueBitCount
\* equals the number of bits set to true among its first Bits bits, so
\* PickRandom returns (0, false) exactly when no bit is set and otherwise the
\* index of a set bit.
C40_TrueBitCount ==
    /\ \A x \in Arrays :
          ~IsNilBA(bitArrays[x]) =>
              bitArrays[x].TrueBitCount = C40_TrueBits(bitArrays[x])
    /\ (ret.op = "PickRandom" /\ ~IsNilBA(bitArrays[ret.bA])) =>
          /\ ret.ok <=> C40_TrueBits(bitArrays[ret.bA]) > 0
          /\ ret.ok => getIndex(bitArrays[ret.bA], ret.index)
          /\ ~ret.ok => ret.index = 0

C39_CatchupRounds(h) ==
    {r \in DOMAIN h.roundVoteSets :
        \E p \in DOMAIN h.peerCatchupRounds :
            \E i \in 1..Len(h.peerCatchupRounds[p]) :
                h.peerCatchupRounds[p][i] = r}

\* The map holds a vote set for every round in 0..round, and beyond these
\* only catchup rounds.
C39_KeysUpToRound(h) ==
    /\ \A r \in 0..h.round : HasVoteSet(h, r)
    /\ \A r \in DOMAIN h.roundVoteSets :
          r \in 0..h.round \/ (r > h.round /\ r \in C39_CatchupRounds(h))

\* C39: HeightVoteSet.SetRound must increment the round: a SetRound call that
\* returns never decreases the tracked round (one that would decrease it
\* panics), and after every call the map holds a vote set for every round in
\* 0..round, and beyond it only catchup rounds.
C39_SetRoundIncrements ==
    [][/\ ret'.op = "SetRound" => hvs'.round >= hvs.round
       /\ C39_KeysUpToRound(hvs')]_vars

\* ------------------------------------------------------------------ C33
\* The step a SignProposal or SignVote call c asks for.
C33_StepOf(c) ==
    IF c.op = "SignProposal" THEN stepPropose
    ELSE IF c.arg.Type = PrevoteType THEN stepPrevote
    ELSE stepPrecommit

\* The call of this step is refused with a step regression, nothing changed.
C33_Rejected ==
    /\ pc' = "returned"
    /\ ret' = ErrStepRegression
    /\ UNCHANGED <<pv, keyFile, stateFile>>

\* C33: the step of a request is Propose (1) for SignProposal, Prevote (2)
\* for a prevote and Precommit (3) for a precommit. With the watermark at
\* (H, R) after a vote was signed there, a SignProposal at (H, R) is refused
\* with a step regression; with a precommit signed there, a prevote at (H, R)
\* is refused with a step regression. A vote of any other type panics before
\* any check or state change: no SignVote call gets anywhere with it, and
\* the panic leaves the files as they were.
C33_StepOrder ==
    [][/\ (pc = "idle" /\ call'.op \in SignOps) =>
            LET c == call'
                lss == pv.LastSignState
                atHR == /\ lss.Height = c.arg.Height
                        /\ lss.Round = c.arg.Round
            IN  /\ c.op = "SignVote" => c.arg.Type \in {PrevoteType, PrecommitType}
                /\ pc' = "saveSigned" => local'.step = C33_StepOf(c)
                /\ (/\ c.op = "SignProposal"
                    /\ atHR
                    /\ lss.Step \in {stepPrevote, stepPrecommit}) => C33_Rejected
                /\ (/\ c.op = "SignVote"
                    /\ c.arg.Type = PrevoteType
                    /\ atHR
                    /\ lss.Step = stepPrecommit) => C33_Rejected
       /\ (pc # "dead" /\ call'.op = "Crash" /\ call'.at = "voteToStep") =>
            /\ pc = "idle"
            /\ UNCHANGED <<keyFile, stateFile>>]_vars

\* A SignProposal was refused at the height and round of a signed precommit.
C33_Witness ==
    /\ pc = "returned"
    /\ call.op = "SignProposal"
    /\ ret = ErrStepRegression
    /\ pv.LastSignState.Step = stepPrecommit
    /\ pv.LastSignState.Height = call.arg.Height
    /\ pv.LastSignState.Round = call.arg.Round
    /\ stateFile # Nil

\* ------------------------------------------------------------------ C34
\* A watermark as a constructed, reset or signing validator has it: without
\* sign bytes only at step None, and with sign bytes only with a signature.
C34_Clean(lss) ==
    /\ lss.SignBytes = Nil => lss.Step = stepNone
    /\ lss.SignBytes # Nil => lss.Signature # Nil

\* C34: a request whose HRS equals the watermark's while the watermark holds
\* no sign bytes is refused with NoSignBytes (the state file here was written
\* by hand, with any HRS and no sign bytes); yet from a newly constructed or
\* reset validator no sequence of sign calls returns NoSignBytes or reaches
\* the corruption panic: the only watermark without sign bytes such a
\* validator ever has is at step None, and every request has step at least
\* Propose.
C34_NoSignBytes ==
    [][/\ (pc = "idle" /\ call'.op \in SignOps) =>
            LET lss == pv.LastSignState
                c == call'
                sameHRS == HRSOf(lss) = <<c.arg.Height, c.arg.Round, C33_StepOf(c)>>
            IN  /\ C33_StepOf(c) >= stepPropose
                /\ (sameHRS /\ lss.SignBytes = Nil) =>
                      /\ pc' = "returned"
                      /\ ret' = ErrNoSignBytes
                      /\ UNCHANGED <<pv, keyFile, stateFile>>
                /\ C34_Clean(lss) => ret' # ErrNoSignBytes
       /\ (pc = "idle" /\ call'.op = "Crash" /\ call'.at = "CheckHRS") =>
            ~C34_Clean(pv.LastSignState)
       /\ (pc # "dead" /\ C34_Clean(pv.LastSignState)) =>
            C34_Clean(pv'.LastSignState)
       /\ (pc = "idle" /\ pc' = "returned" /\ call'.op = "Reset") =>
            pv'.LastSignState = EmptyLSS]_vars

\* A sign call was refused with NoSignBytes by a validator whose state file
\* had been written by hand.
C34_Witness ==
    /\ pc = "returned"
    /\ call.op \in SignOps
    /\ ret = ErrNoSignBytes
    /\ pv.LastSignState.SignBytes = Nil
    /\ HRSOf(pv.LastSignState) = <<call.arg.Height, call.arg.Round, C33_StepOf(call)>>

\* ------------------------------------------------------------------ C35
\* C35: in SignVote the HRS check runs before the extension rules and the
\* extension rules before the replay resolver: a request that regresses the
\* HRS and carries an unexpected extension returns the regression error of
\* the HRS check, and a request at the HRS of the stored sign bytes with an
\* unexpected extension returns UnexpectedExtension, its signature and
\* timestamp as they came, the stored signature not reused.
C35_CheckOrder ==
    [][(pc = "idle" /\ ExtensionRejected(call')) =>
          LET lss == pv.LastSignState
              vote == call'.arg
              req == <<vote.Height, vote.Round, voteToStep(vote)>>
          IN  /\ pc' = "returned"
              /\ UNCHANGED <<pv, stateFile>>
              /\ HRSLess(req, HRSOf(lss)) =>
                    /\ ret' = CheckHRS(lss, req[1], req[2], req[3]).err
                    /\ ret' \in {ErrHeightRegression, ErrRoundRegression,
                                 ErrStepRegression}
              /\ (req = HRSOf(lss) /\ lss.SignBytes # Nil) =>
                    /\ ret' = ErrUnexpectedExtension
                    /\ msg'.Signature = vote.Signature
                    /\ msg'.Signature # lss.Signature
                    /\ msg'.Timestamp = vote.Timestamp]_vars

\* A vote equal to the signed one but for an extension it must not carry was
\* refused with UnexpectedExtension.
C35_Witness ==
    /\ pc = "returned"
    /\ ExtensionRejected(call)
    /\ ret = ErrUnexpectedExtension
    /\ pv.LastSignState.SignBytes = Some(VoteSignBytes(ChainID, call.arg))
    /\ pv.LastSignState.Signature # Nil
    /\ msg.Signature = Nil

\* ------------------------------------------------------------------ C36
\* The state file holds the watermark the validator has in memory.
C36_InSync ==
    /\ stateFile # Nil
    /\ UnmarshalLSS(stateFile[1]) = pv.LastSignState

\* The step is a successful state write of the running validator: the write
\* of a fresh signature, or a Save or Reset that returned.
C36_Written ==
    \/ pc = "saveSigned" /\ pc' = "stamp"
    \/ pc = "idle" /\ pc' = "returned" /\ call'.op \in {"Save", "Reset"}

\* C36: after the first successful state write of a validator (a fresh
\* signature, Save or Reset) the state file's contents equal its in-memory
\* watermark (height, round, step, sign bytes, signature) at every point
\* between operations: every such write leaves the two equal, and no step of
\* the running validator, inside an operation or between two, makes them
\* differ again.
C36_FileEqualsMemory ==
    [][/\ C36_Written => C36_InSync'
       /\ (pc # "dead" /\ pc' # "dead" /\ C36_InSync) => C36_InSync'
       /\ (pc # "dead" /\ pc' # "dead" /\ stateFile' # stateFile) => C36_Written]_vars

\* A fresh signature above the lowest HRS was returned: file and memory hold
\* its watermark.
C36_Witness ==
    /\ pc = "returned"
    /\ call.op \in SignOps
    /\ ret = "ok"
    /\ FreshPath
    /\ C36_InSync
    /\ pv.LastSignState.Signature = local.sig
    /\ HRSLess(<<1, 0, stepPropose>>, HRSOf(pv.LastSignState))

\* ------------------------------------------------------------------ C37
\* LoadOrGenFilePV returns in this step.
C37_Returns ==
    /\ pc = "dead"
    /\ pc' = "returned"
    /\ call'.op = "LoadOrGenFilePV"

\* C37: LoadOrGenFilePV loads the existing validator when the key file
\* exists and otherwise generates a key and persists both files, so it is
\* idempotent: a call made when the files exist returns the key of the key
\* file and the watermark last persisted, writes nothing and generates no
\* key; the call that generates leaves in the files the key and the (empty)
\* watermark it returns.
C37_LoadOrGenIdempotent ==
    [][C37_Returns =>
          IF keyFile # Nil
          THEN /\ UNCHANGED <<keyFile, stateFile>>
               /\ stateFile # Nil
               /\ pv'.LastSignState = UnmarshalLSS(stateFile[1])
               /\ pv'.Key.PrivKey = keyFile[1].priv_key
               /\ MarshalKey(pv'.Key) = keyFile[1]
          ELSE /\ keyFile' = Some(MarshalKey(pv'.Key))
               /\ stateFile' = Some(MarshalLSS(pv'.LastSignState))
               /\ pv'.LastSignState = EmptyLSS
               /\ pv'.Key.PrivKey \in PrivKeys \cup {OtherKey}]_vars

\* A second LoadOrGenFilePV has returned the validator of the first, which
\* had generated the other key and has signed since.
C37_Witness ==
    /\ pc = "returned"
    /\ call.op = "LoadOrGenFilePV"
    /\ pv.Key.PrivKey = OtherKey
    /\ keyFile = Some(MarshalKey(pv.Key))
    /\ pv.LastSignState.SignBytes # Nil
    /\ stateFile = Some(MarshalLSS(pv.LastSignState))

\* ------------------------------------------------------------------ C38
\* The wrapped client is called in this step.
C38_Attempt == pc = "loop" /\ local'.calls = local.calls + 1

\* C38: when the wrapped client returns a RemoteSignerError, the operation
\* of the RetrySignerClient returns that error at once and as it is, with no
\* sleep and no further attempt, whatever the retries setting; after any
\* other error it sleeps and goes back to the loop, and it sleeps after no
\* other outcome.
C38_RemoteSignerErrorNotRetried ==
    [][/\ (C38_Attempt /\ local'.last \in RemoteSignerErrors) =>
             /\ pc' = "returned"
             /\ ret' = local'.last
             /\ ret'.kind = "RemoteSignerError"
             /\ local'.i = local.i
       /\ (C38_Attempt /\ local'.last \in OtherErrors) =>
             /\ pc' = "sleep"
             /\ ret' = ret
       /\ pc' = "sleep" => (C38_Attempt /\ local'.last \in OtherErrors)
       /\ pc = "sleep" => (pc' = "loop" /\ local'.calls = local.calls)
       /\ pc = "returned" => (pc' = "idle" /\ local' = NoLocal)]_vars

\* A remote-signer error was returned by the third attempt of an operation
\* that retries for ever, the first two having failed otherwise.
C38_Witness ==
    /\ pc = "returned"
    /\ call.op \in RetryOps
    /\ call.retries = 0
    /\ ret \in RemoteSignerErrors
    /\ local.calls = 3
    /\ local.i = 2

====
